---- MODULE Spec2Model ----
(***************************************************************************)
(* Model of the icapi extension module (src/src/icapimodule.c): the bridge *)
(* between the Python host and the foreign IcAPI library declared in       *)
(* src/icapi/include/IcAPI.h.                                              *)
(*                                                                         *)
(* One action per module function.  An action runs the whole function:     *)
(* argument parsing, the allocations, every foreign call, the conversion   *)
(* of the delivered data and the release of the handles.  What the foreign *)
(* side does (the status it returns, the data it writes, the handles it    *)
(* keeps or replaces) and whether an allocation succeeds are inputs of the *)
(* action, drawn from small sets.  The state is the record of the call     *)
(* that finished last.                                                     *)
(***************************************************************************)
EXTENDS Integers, Sequences, FiniteSets, TLC

(***************************************************************************)
(* Program constants                                                       *)
(***************************************************************************)
IcReturnType_ok == 0
IcReturnType_error == 1
IcReturnType_timeout == 2

N_CAL_PARS == 2
MAX_PATH_LEN == 260

DefaultTimeout == 1000
DefaultTimebins == 1000000
DefaultAddData == 2000

(***************************************************************************)
(* Bounds of the model                                                     *)
(***************************************************************************)
MaxStatus == 3      \* the foreign side returns a status in 0..MaxStatus
MaxLen == 2         \* longest numeric array the foreign side delivers
MaxAddData == 2     \* longest add-data array the foreign side delivers
MaxStrLen == 2      \* longest byte string the foreign side delivers

Statuses == 0..MaxStatus

\* Representative bytes: ASCII 'A' (0x41), the UTF-8 lead byte 0xC3 and the
\* continuation byte 0xA9 (each of the two is a Latin-1 letter on its own).
Bytes == {65, 195, 169}

RECURSIVE SeqsUpTo(_, _)
SeqsUpTo(S, n) ==
    IF n = 0 THEN {<<>>}
    ELSE LET shorter == SeqsUpTo(S, n - 1)
         IN  shorter \cup {Append(s, x) : s \in {t \in shorter : Len(t) = n - 1}, x \in S}

ByteStrs == SeqsUpTo(Bytes, MaxStrLen)

\* float values the foreign side writes (small integers stand for floats)
Floats == {1, 2}
FloatArrs == SeqsUpTo(Floats, MaxLen)

Timeouts == {5, 1000}

MaxCycle == 1       \* largest cycle number the foreign side delivers
TimingInfos == [Cycle : 0..MaxCycle, CycleOverall : 0..MaxCycle,
                relTime : {5}, absTime : {6}]

\* a buffer element the foreign side did not write
Uninit == 0 - 1

\* the IcAutomation cluster: 9 int32 fields
n_autos == 9
Automations == {[i \in 1..n_autos |-> 0], [i \in 1..n_autos |-> i]}
CalPars == {<<3, 4>>}

\* numpy arrays passed in by the caller: a shape and an element type
Shapes == {<<n>> : n \in 0..MaxLen} \cup {<<n, m>> : n \in 1..MaxLen, m \in 1..MaxLen}
ArrayArgs == [shape : Shapes, dtype : {"float32", "float64"}]
TraceTypes == (0 - 1)..3

(***************************************************************************)
(* Python objects                                                          *)
(***************************************************************************)
NULL == [kind |-> "NULL"]
PyNone == [kind |-> "None"]
PyInt(i) == [kind |-> "int", v |-> i]
PyFloat(x) == [kind |-> "float", v |-> x]
PyStr(cps) == [kind |-> "str", v |-> cps]
PyTuple(items) == [kind |-> "tuple", v |-> items]
PyList(items) == [kind |-> "list", v |-> items]
NpArray(dtype, items) == [kind |-> "ndarray", dtype |-> dtype, v |-> items]

\* The error indicator: the exceptions set during the call, in order.  Each
\* PyErr_SetString replaces the pending exception, so the last one is pending.
Pending(log) == IF log = <<>> THEN "none" ELSE log[Len(log)]

(***************************************************************************)
(* The tables of the module                                                *)
(***************************************************************************)
\* The enumeration Common_ServerActions of the header: the names of the
\* constants in the order of their values, which count from 0.
Common_ServerActions ==
    <<"Idle", "StartMeasQuick", "StopMeasurement", "LoadPeaktable",
      "LoadCalibration", "ShowSettings", "WriteCalibration", "ShowFP",
      "HideFP", "Reconnect", "Close_No_Prompt", "ITOF_TDC_Settings",
      "ITOF_DI_DO_Dialog", "Disconnect", "InitTPS", "ShutDownTPS",
      "Close_With_Prompt", "StartMeasRecord", "StartMeasAuto", "EditPeakTable",
      "ShowMeasureView", "HideMeasureView", "ConnectPTR", "DisconnectPTR",
      "ConnectDetector", "DisconnectDetector", "ChangeMeasureView",
      "TOF_CoarseCal", "iTOF_Reset_avg_View", "Load_iTofSupply_Set_File",
      "Load_And_Set_iTofsupply_Set_File", "StartRepeatedMeasurement",
      "StopAfterCurrentRun", "SC_TDC_Restart", "SC_TDC_Reboot",
      "ChangeTransmission", "ChangeDataSaveSet", "ChangeAutoCALset">>

\* the value the header gives to a name
ServerActionValue(name) ==
    (CHOOSE i \in 1..Len(Common_ServerActions) : Common_ServerActions[i] = name) - 1

\* The names PyInit_icapi appends to the list server_actions, in order; each
\* is appended as the pair of the name and the constant of that name.
ServerActionNames ==
    <<"Idle", "StartMeasQuick", "StopMeasurement", "LoadPeaktable",
      "LoadCalibration", "ShowSettings", "WriteCalibration", "ShowFP",
      "HideFP", "Reconnect", "Close_No_Prompt", "ITOF_TDC_Settings",
      "ITOF_DI_DO_Dialog", "Disconnect", "InitTPS", "ShutDownTPS",
      "Close_With_Prompt", "StartMeasRecord", "StartMeasAuto", "EditPeakTable",
      "ShowMeasureView", "HideMeasureView", "ConnectPTR", "DisconnectPTR",
      "ConnectDetector", "DisconnectDetector", "ChangeMeasureView",
      "TOF_CoarseCal", "iTOF_Reset_avg_View", "Load_iTofSupply_Set_File",
      "Load_And_Set_iTofsupply_Set_File", "StartRepeatedMeasurement",
      "StopAfterCurrentRun", "SC_TDC_Restart", "SC_TDC_Reboot">>

\* PyList_Append of Py_BuildValue("(s,i)", name, constant) for each name
BuildServerActions ==
    [i \in 1..Len(ServerActionNames) |->
        <<ServerActionNames[i], ServerActionValue(ServerActionNames[i])>>]

VARIABLES
    fn,      \* the module function that finished last ("none" before any call)
    args,    \* its arguments
    fcalls,  \* the foreign calls it made, in order, each with its status
    out,     \* what the foreign side delivered into the buffers and handles
    rv,      \* the returned object, NULL when none
    excLog,  \* the exceptions set during the call, in order
    rel,     \* per handle, how often it has been released
    held,    \* the handles the call holds when the foreign call returns
    ub,      \* the undefined operations the call performed
    path,    \* the exit path the call took
    hlog     \* what the call did with handles, in order

\* What outlives a call, for a caller that makes one call after the other.
VARIABLES
    srvCycle,     \* the overall cycle the server is in
    lastOverall,  \* the overall cycle of the last result the caller took (-1: none)
    interp,       \* the interpreter: the reference count of None, and whether it runs
    probe         \* the first and the last end of a SetTraceMasses call answered ok

\* Several threads of one interpreter, each making calls.
VARIABLES
    gil,      \* the thread that holds the interpreter lock
    pc,       \* per thread: where its call is ("idle": not in a call)
    tfn,      \* per thread: the function it is in
    frame,    \* per record of a call: the handles stored in it
    heap,     \* per handle of the foreign side: the thread it was allocated for (0: free)
    lastOp    \* the last use of handles: by whom, and whose they were

\* The attribute server_actions of the module: the list PyInit_icapi builds.
VARIABLES server_actions

callVars == <<fn, args, fcalls, out, rv, excLog, rel, held, ub, path, hlog>>
serialVars == <<srvCycle, lastOverall, interp, probe>>
threadVars == <<gil, pc, tfn, frame, heap, lastOp>>
vars == <<callVars, serialVars, threadVars, server_actions>>

MaxThreads == 2     \* the threads that make calls
MaxHandles == 8     \* the handles the foreign side can have allocated at a time
Threads == 1..MaxThreads
Handles == 1..MaxHandles

MaxNoneRefs == 2    \* the references to None held in the interpreter at the start

NoRel == <<>>

InitCall ==
    /\ fn = "none"
    /\ args = <<>>
    /\ fcalls = <<>>
    /\ out = <<>>
    /\ rv = NULL
    /\ excLog = <<>>
    /\ rel = NoRel
    /\ held = {}
    /\ ub = {}
    /\ path = "init"
    /\ hlog = <<>>

InitThreads ==
    /\ gil = 1
    /\ pc = [t \in Threads |-> "idle"]
    /\ tfn = [t \in Threads |-> "none"]
    /\ frame = [t \in Threads |-> {}]
    /\ heap = [h \in Handles |-> 0]
    /\ lastOp = [t |-> 0, e |-> "none", hs |-> {}, owners |-> {}]

InitOne ==
    /\ srvCycle = 0
    /\ lastOverall = 0 - 1
    /\ interp = [immortal |-> FALSE, none_refcnt |-> MaxNoneRefs, alive |-> TRUE]
    /\ probe = [first |-> "none", last |-> "none"]

Init ==
    /\ InitCall
    /\ InitOne
    /\ InitThreads
    /\ server_actions = BuildServerActions

\* The record of a call.
Rec(f, a, calls, o, r, log, rl, h, u, p, hl) ==
    /\ fn' = f
    /\ args' = a
    /\ fcalls' = calls
    /\ out' = o
    /\ rv' = r
    /\ excLog' = log
    /\ rel' = rl
    /\ held' = h
    /\ ub' = u
    /\ path' = p
    /\ hlog' = hl

\* The end of a call: the record of what it did.  No function of the module
\* writes to anything that outlives the call (the module has no state:
\* m_size is -1 and no variable of the file is written after the import).
DoneH(f, a, calls, o, r, log, rl, h, u, p, hl) ==
    /\ Rec(f, a, calls, o, r, log, rl, h, u, p, hl)
    /\ UNCHANGED <<serialVars, threadVars, server_actions>>

\* the end of a call that touches no handle
Done(f, a, calls, o, r, log, rl, h, u, p) ==
    DoneH(f, a, calls, o, r, log, rl, h, u, p, <<>>)

FCall(op, status) == [op |-> op, status |-> status]

\* A variant in which only the address is required.
Format_optional(f) ==
    CASE f = "GetNextTimecycle" -> <<"s", "|", "i">>
      [] f = "GetNextSpectrum" -> <<"s", "|", "i", "i">>
      [] f = "GetNextFullcycle" -> <<"s", "|", "i", "i", "i">>
      [] f = "GetTraceData" -> <<"s", "|", "i", "i">>

\* The format strings of the functions that take a timeout: one unit per
\* argument, the arguments behind "|" are optional.
Format(f) ==
    CASE f = "GetNextTimecycle" -> <<"s", "i">>
      [] f = "GetNextSpectrum" -> <<"s", "i", "|", "i">>
      [] f = "GetNextFullcycle" -> <<"s", "i", "|", "i", "i">>
      [] f = "GetTraceData" -> <<"s", "i", "i">>

MaxArgs(fmt) == Len(SelectSeq(fmt, LAMBDA c : c # "|"))
MinArgs(fmt) ==
    IF \E i \in 1..Len(fmt) : fmt[i] = "|"
    THEN (CHOOSE i \in 1..Len(fmt) : fmt[i] = "|") - 1
    ELSE Len(fmt)

\* PyArg_ParseTuple(args, format, ...) with nargs arguments of the right
\* types: accepted when no required argument is missing and none is extra.
PyArg_ParseTuple(fmt, nargs) == MinArgs(fmt) <= nargs /\ nargs <= MaxArgs(fmt)

\* PyArg_ParseTuple failed: TypeError, no foreign call.
ParseFail(f, a) ==
    Done(f, a, <<>>, <<>>, NULL, <<"TypeError">>, NoRel, {}, {}, "parse_fail")

\* The interpreter runs one module function at a time (no function of the
\* module releases the interpreter lock): a call starts when none is recorded.
Idle == fn = "none"

\* The caller has taken the result; the call's record is dropped.
Return ==
    /\ ~Idle
    /\ Done("none", <<>>, <<>>, <<>>, NULL, <<>>, NoRel, {}, {}, "init")

(***************************************************************************)
(* conversion                                                              *)
(***************************************************************************)
\* A variant with the two cycle numbers exchanged.
convert_IcTimingInfo_swapped(timing) ==
    PyTuple(<<PyInt(timing.CycleOverall), PyInt(timing.Cycle),
              PyFloat(timing.relTime), PyFloat(timing.absTime)>>)

convert_IcTimingInfo(timing) ==
    PyTuple(<<PyInt(timing.Cycle), PyInt(timing.CycleOverall),
              PyFloat(timing.relTime), PyFloat(timing.absTime)>>)

convert_Automation(automation) ==
    PyTuple([i \in 1..n_autos |-> PyInt(automation[i])])

\* A caller's buffer of n elements after the foreign side wrote data into it:
\* the foreign side writes at most n elements.
Written(n, data) ==
    [i \in 1..n |-> IF i <= Len(data) THEN data[i] ELSE Uninit]

\* A variant that hands the delivered data to the caller on a timeout.
FailResult_stale(err, delivered) ==
    IF err = IcReturnType_timeout THEN delivered ELSE NULL

\* What a function returns when the blocking call's status is not ok
\* ("return NULL;" behind the switch): nothing, whatever the foreign side
\* has written into the buffers (delivered).
FailResult(err, delivered) == NULL

\* A variant with the two cases of the switch exchanged.
StatusExc_exchanged(err) ==
    IF err = IcReturnType_error THEN <<"TimeoutError">>
    ELSE IF err = IcReturnType_timeout THEN <<"IOError">>
    ELSE <<>>

\* The exception a function raises for a status other than ok
\* (switch (err) { case error: IOError; case timeout: TimeoutError; }).
StatusExc(err) ==
    IF err = IcReturnType_error THEN <<"IOError">>
    ELSE IF err = IcReturnType_timeout THEN <<"TimeoutError">>
    ELSE <<>>

(***************************************************************************)
(* strings                                                                 *)
(***************************************************************************)
\* Py_BuildValue("s#", str, cnt): the cnt bytes are decoded as UTF-8, strictly
\* (PyUnicode_FromStringAndSize).  [ok, text]: text is the sequence of code
\* points; ok is FALSE when the bytes are not valid UTF-8.
Cont(b) == b >= 128 /\ b <= 191

RECURSIVE DecodeUTF8(_)
DecodeUTF8(bs) ==
    IF bs = <<>> THEN [ok |-> TRUE, text |-> <<>>]
    ELSE
    LET b == bs[1]
        n == IF b < 128 THEN 1
             ELSE IF b >= 194 /\ b <= 223 THEN 2
             ELSE IF b >= 224 /\ b <= 239 THEN 3
             ELSE IF b >= 240 /\ b <= 244 THEN 4
             ELSE 0
        wellFormed ==
            /\ n > 0
            /\ Len(bs) >= n
            /\ \A i \in 2..n : Cont(bs[i])
            /\ b = 224 => bs[2] >= 160
            /\ b = 237 => bs[2] <= 159
            /\ b = 240 => bs[2] >= 144
            /\ b = 244 => bs[2] <= 143
        cp == IF n = 1 THEN b
              ELSE IF n = 2 THEN (b - 192) * 64 + (bs[2] - 128)
              ELSE IF n = 3 THEN (b - 224) * 4096 + (bs[2] - 128) * 64 + (bs[3] - 128)
              ELSE (b - 240) * 262144 + (bs[2] - 128) * 4096
                   + (bs[3] - 128) * 64 + (bs[4] - 128)
        rest == DecodeUTF8(SubSeq(bs, n + 1, Len(bs)))
    IN  IF ~wellFormed THEN [ok |-> FALSE, text |-> <<>>]
        ELSE IF ~rest.ok THEN rest
        ELSE [ok |-> TRUE, text |-> <<cp>> \o rest.text]

(***************************************************************************)
(* handles                                                                 *)
(***************************************************************************)
\* A handle is named by the field it was allocated for and by who allocated
\* it: 0 this module (Allocate*), 1 the foreign side (a replacement).
NullH == <<>>
H(field, gen) == <<field, gen>>

\* Allocate*: a handle, or the null handle when the allocation fails.
Allocate(field, nulls) == IF field \in nulls THEN NullH ELSE H(field, 0)

\* The handle a field holds after the foreign call: the foreign side keeps
\* the handle (writing or resizing it in place) or stores a handle of its own.
After(field, pre, repl) == IF field \in repl THEN H(field, 1) ELSE pre

\* DeAllocate*(&h): releases the handle unless it is null.
DeAllocate(h, counts) ==
    IF h = NullH THEN counts ELSE [counts EXCEPT ![h] = @ + 1]

\* The events of a call on handles: the non-null handles of hs, in order,
\* each passed to the foreign call ("pass"), read ("read") or released
\* ("release").
Ev(e, hs) ==
    SelectSeq([i \in 1..Len(hs) |-> [e |-> e, h |-> hs[i]]],
              LAMBDA x : x.h # NullH)

\* A variant that releases the handles before their payloads are converted.
Order_free_first(uses, frees) == frees \o uses

\* The order of a function's reads of the handles and of their release: the
\* conversions come first, the DeAllocate* calls last.
Order(uses, frees) == uses \o frees

\* a read of h comes behind a release of h
ReadAfterRelease(h, hl) ==
    \E i \in 1..Len(hl) : \E j \in (i + 1)..Len(hl) :
        /\ hl[i] = [e |-> "release", h |-> h]
        /\ hl[j] = [e |-> "read", h |-> h]

\* What a read of the payload of h yields: the payload, or whatever the
\* released memory holds by then.
Seen(h, payload, hl) ==
    IF ReadAfterRelease(h, hl) THEN [i \in 1..Len(payload) |-> Uninit] ELSE payload

\* A variant that takes a null handle and an empty payload for a failure.
convert_LVArrayBase_nonempty(h, payload, dtype, npOk) ==
    IF h = NullH \/ payload = <<>>
    THEN [arr |-> NULL, log |-> <<"RuntimeError">>]
    ELSE IF npOk THEN [arr |-> NpArray(dtype, payload), log |-> <<>>]
                 ELSE [arr |-> NULL, log |-> <<"MemoryError", "RuntimeError">>]

\* convert_LVArrayBase: [arr, log]: the numpy array with a copy of the
\* handle's payload, the empty array for a null handle; NULL when numpy
\* cannot allocate.
convert_LVArrayBase(h, payload, dtype, npOk) ==
    IF h = NullH
    THEN IF npOk THEN [arr |-> NpArray(dtype, <<>>), log |-> <<>>]
                 ELSE [arr |-> NULL, log |-> <<"MemoryError">>]
    ELSE IF npOk THEN [arr |-> NpArray(dtype, payload), log |-> <<>>]
                 ELSE [arr |-> NULL, log |-> <<"MemoryError", "RuntimeError">>]

(***************************************************************************)
(* calc conc-info functions                                                *)
(***************************************************************************)
\* What the undefined read through a null or dangling pointer does: the
\* process dies, or the read yields a null pointer and the call goes on.
UBOutcomes == {"crash", "null"}

\* the process died inside the call: nothing is returned or released
Crash(f, a, calls, o, h, counts, u, hl) ==
    DoneH(f, a, calls, o, NULL, <<>>, counts, h, u, "crash", hl)

\* GetCurrentPrimaryIon and GetCurrentTransmission share their code but for
\* the names: F names the two float-array fields (a1, a2) and the string
\* field (name) of the record, extra holds the scalar fields appended to the
\* result.
\*   nulls     the allocations that return a null handle
\*   elemNull  the element of the fresh string-handle array is a null handle
\*   repl      the fields in which the foreign side stores a handle of its own
\*   ubOut     the outcome of an undefined read
\*   err       the status of the foreign call
\*   data      the payloads the handles hold after the foreign call
\*   npFail    the conversion for which numpy cannot allocate ("none": none)
CurrentRecord(f, op, F, extra, a, nulls, elemNull, repl, ubOut, err, data, npFail) ==
    LET hA1 == Allocate(F.a1, nulls)
        hA2 == Allocate(F.a2, nulls)
        name_harr == Allocate("NameArr", nulls)
        deref == name_harr = NullH          \* name_harr[0]->String[0]
        elem == IF deref \/ elemNull THEN NullH ELSE H(F.name, 0)
        u == IF deref THEN {"null_deref"} ELSE {}
        \* the record after the foreign call
        pA1 == After(F.a1, hA1, repl)
        pA2 == After(F.a2, hA2, repl)
        pName == After(F.name, elem, repl)
        disposed == {h \in {hA1, hA2, elem} : h # NullH /\ h[1] \in repl}
        h == {pA1, pA2, name_harr, pName} \ {NullH}
        calls == <<[op |-> op, status |-> err, handles |-> <<hA1, hA2, elem>>]>>
        alloc == [a1 |-> hA1, a2 |-> hA2, arr |-> name_harr]
        o == [alloc |-> alloc, data |-> data,
              after |-> [a1 |-> pA1, a2 |-> pA2, name |-> pName],
              disposed |-> disposed]
        \* the arrays are converted when the call is answered ok, the name
        \* handle is tested and read; then the handles are released
        reads == (IF err = IcReturnType_ok THEN Ev("read", <<pA1, pA2>>) ELSE <<>>)
                 \o Ev("read", <<pName>>)
        frees == Ev("release", <<pA1, pA2, name_harr, elem>>)
        hl == Ev("read", <<name_harr>>) \o Ev("pass", <<hA1, hA2, elem>>)
              \o Order(reads, frees)
        c1 == IF err # IcReturnType_ok THEN [arr |-> NULL, log |-> StatusExc(err)]
              ELSE convert_LVArrayBase(pA1, Seen(pA1, data.a1, hl), "float32",
                                       npFail # "a1")
        c2 == IF err # IcReturnType_ok THEN [arr |-> NULL, log |-> <<>>]
              ELSE convert_LVArrayBase(pA2, Seen(pA2, data.a2, hl), "float32",
                                       npFail # "a2")
        log1 == c1.log \o c2.log
        noData == pName = NullH \/ c1.arr = NULL \/ c2.arr = NULL
        build == ~noData /\ log1 = <<>>     \* PyErr_Occurred() == NULL
        dec == DecodeUTF8(Seen(pName, data.name, hl))
        log2 == IF noData THEN Append(log1, "RuntimeError")
                ELSE IF build /\ ~dec.ok THEN Append(log1, "UnicodeDecodeError")
                ELSE log1
        r == IF build /\ dec.ok
             THEN PyTuple(<<PyStr(dec.text), c1.arr, c2.arr>> \o extra)
             ELSE NULL
        zero == [x \in h \cup disposed |-> 0]
        \* DeAllocateLStrHandleArray releases the array and its element
        counts == DeAllocate(elem, DeAllocate(name_harr,
                    DeAllocate(pA2, DeAllocate(pA1, zero))))
        p == IF err # IcReturnType_ok THEN "foreign_fail"
             ELSE IF noData THEN "no_data"
             ELSE IF r = NULL THEN "build_fail"
             ELSE "success"
    IN  IF deref /\ ubOut = "crash"
        THEN Crash(f, a, <<>>, [alloc |-> alloc], {}, NoRel, u, <<>>)
        ELSE DoneH(f, a, calls, o, r, log2, counts, h, u, p, hl)

\* the payloads a record's handles hold after the foreign call
RecordData == [a1 : FloatArrs, a2 : {<<>>, <<2, 1>>}, name : ByteStrs]

PrimaryIonFields == [a1 |-> "Masses", a2 |-> "Multiplier", name |-> "SettingName"]
TransmissionFields == [a1 |-> "Mass", a2 |-> "Trans", name |-> "Name"]

\* at most one allocation of a call fails
NullSets(fields) == {{}} \cup {{x} : x \in fields}

CanonData == [a1 |-> <<1>>, a2 |-> <<>>, name |-> <<65>>]

\* The inputs explored.  Allocation failures, replaced array handles, numpy
\* failures and the statuses other than ok are explored with one payload;
\* the payloads vary when the call is answered ok and the handles behave
\* (allocations succeed, the foreign side replaces at most the string
\* handle).  The outcome of an undefined read varies only when there is one.
RecordInputs(F) ==
    {[nulls |-> nulls, elemNull |-> elemNull, repl |-> repl, ubOut |-> ubOut,
      err |-> err, data |-> CanonData, npFail |-> npFail] :
        nulls \in NullSets({F.a1, F.a2, "NameArr"}), elemNull \in BOOLEAN,
        repl \in SUBSET {F.a1, F.a2, F.name},
        ubOut \in {"crash"}, err \in Statuses, npFail \in {"none"}}
    \cup
    {[nulls |-> {"NameArr"}, elemNull |-> elemNull, repl |-> repl, ubOut |-> "null",
      err |-> err, data |-> CanonData, npFail |-> "none"] :
        elemNull \in BOOLEAN, repl \in SUBSET {F.a1, F.a2, F.name}, err \in Statuses}
    \cup
    {[nulls |-> nulls, elemNull |-> elemNull, repl |-> repl, ubOut |-> "crash",
      err |-> IcReturnType_ok, data |-> CanonData, npFail |-> npFail] :
        nulls \in NullSets({F.a1, F.a2}), elemNull \in BOOLEAN,
        repl \in SUBSET {F.a1, F.a2, F.name}, npFail \in {"a1", "a2"}}
    \cup
    {[nulls |-> {}, elemNull |-> elemNull, repl |-> repl, ubOut |-> "crash",
      err |-> IcReturnType_ok, data |-> data, npFail |-> "none"] :
        elemNull \in BOOLEAN, repl \in SUBSET {F.name}, data \in RecordData}

icapi_GetCurrentPrimaryIon ==
    /\ Idle
    /\ \/ ParseFail("GetCurrentPrimaryIon", [ip |-> FALSE])
       \/ \E in \in RecordInputs(PrimaryIonFields) :
            CurrentRecord("GetCurrentPrimaryIon", "IcAPI_GetCurrentPrimaryIon",
                          PrimaryIonFields, <<>>, [ip |-> TRUE],
                          in.nulls, in.elemNull, in.repl, in.ubOut, in.err,
                          in.data, in.npFail)

icapi_GetCurrentTransmission ==
    /\ Idle
    /\ \/ ParseFail("GetCurrentTransmission", [ip |-> FALSE])
       \/ \E in \in RecordInputs(TransmissionFields), voltage \in Floats :
            CurrentRecord("GetCurrentTransmission", "IcAPI_GetCurrentTransmission",
                          TransmissionFields, <<PyFloat(voltage)>>, [ip |-> TRUE],
                          in.nulls, in.elemNull, in.repl, in.ubOut, in.err,
                          in.data, in.npFail)

(***************************************************************************)
(* GetNextFullcycle                                                        *)
(***************************************************************************)
FullcycleFields == {"CalPara", "Spectrum", "Data", "Desc", "Group"}

\* alloc_IcFullcycle: the five handles of the IcFullcycle record
alloc_IcFullcycle(nulls) == [x \in FullcycleFields |-> Allocate(x, nulls)]

\* A variant that forgets the string-handle array of the groups.
free_IcFullcycle_leak(data, counts) ==
    DeAllocate(data["Desc"],
      DeAllocate(data["Data"],
        DeAllocate(data["Spectrum"],
          DeAllocate(data["CalPara"], counts))))

\* free_IcFullcycle: every handle of the record is released
free_IcFullcycle(data, counts) ==
    DeAllocate(data["Group"],
      DeAllocate(data["Desc"],
        DeAllocate(data["Data"],
          DeAllocate(data["Spectrum"],
            DeAllocate(data["CalPara"], counts)))))

\* an element of a string-handle array: a null handle or a handle to bytes
NullStr == [h |-> FALSE, str |-> <<>>]
Str(bytes) == [h |-> TRUE, str |-> bytes]

\* PyList_New(n): a list of n empty (NULL) slots
PyList_New(n) == [i \in 1..n |-> NULL]

\* PyList_Insert(list, where, item): the item is put in front of the element
\* at index where (0-based), the elements from there on move up by one; a
\* NULL item is refused (SystemError) and the list is left as it is.
PyList_Insert(list, where, item) ==
    LET w == IF where > Len(list) THEN Len(list) ELSE where
    IN  IF item = NULL THEN list
        ELSE SubSeq(list, 1, w) \o <<item>> \o SubSeq(list, w + 1, Len(list))

\* The read of String[i] (0-based) of a string-handle array and of the
\* string behind it: [ub, bytes].  Reading through a null array handle, past
\* the end of the array or through a null element is undefined.
ReadStr(h, arr, i) ==
    IF h = NullH THEN [ub |-> {"null_deref"}, bytes |-> <<>>]
    ELSE IF i + 1 > Len(arr) THEN [ub |-> {"oob_read"}, bytes |-> <<>>]
    ELSE IF ~arr[i + 1].h THEN [ub |-> {"null_deref"}, bytes |-> <<>>]
    ELSE [ub |-> {}, bytes |-> arr[i + 1].str]

\* The loop over the add-data arrays, from index i (0-based) on.
\* st = [list, log, ub, crashed]; d: the add-data arrays and their handles.
RECURSIVE AddDataLoop(_, _, _, _, _)
AddDataLoop(i, n_add_data, d, ubOut, st) ==
    IF i >= n_add_data \/ st.crashed THEN st
    ELSE
    LET dat == d.Data[i + 1]
        desc_s == ReadStr(d.hDesc, d.Desc, i)
        group_s == ReadStr(d.hGroup, d.Group, i)
        u == desc_s.ub \cup group_s.ub
        dd == DecodeUTF8(desc_s.bytes)
        dg == DecodeUTF8(group_s.bytes)
        list_item == IF dd.ok /\ dg.ok
                     THEN PyTuple(<<PyFloat(dat), PyStr(dd.text), PyStr(dg.text)>>)
                     ELSE NULL
        log == IF list_item = NULL
               THEN st.log \o <<"UnicodeDecodeError", "SystemError">>
               ELSE st.log
    IN  IF u # {} /\ ubOut = "crash"
        THEN [st EXCEPT !.ub = @ \cup u, !.crashed = TRUE]
        ELSE AddDataLoop(i + 1, n_add_data, d, ubOut,
                         [list |-> PyList_Insert(st.list, i, list_item),
                          log |-> log, ub |-> st.ub \cup u, crashed |-> FALSE])

\*   nulls   the allocations that return a null handle
\*   repl    the fields in which the foreign side stores a handle of its own
\*   ubOut   the outcome of an undefined read
\*   err     the status of IcAPI_GetNextFullCycle
\*   full    what the record holds after the foreign call
\*   npFail  the conversion for which numpy cannot allocate ("none": none)
NextFullcycle(a, nulls, repl, ubOut, err, full, npFail) ==
    LET pre == alloc_IcFullcycle(nulls)
        data == [x \in FullcycleFields |-> After(x, pre[x], repl)]
        disposed == {pre[x] : x \in {y \in FullcycleFields : pre[y] # NullH /\ y \in repl}}
        h == {data[x] : x \in FullcycleFields} \ {NullH}
        zero == [x \in h \cup disposed |-> 0]
        freed == free_IcFullcycle(data, zero)
        calls == <<[op |-> "IcAPI_GetNextFullCycle", status |-> err,
                    timeout |-> a.timeout_ms,
                    handles |-> pre]>>
        o == [alloc |-> pre, full |-> full, after |-> data, disposed |-> disposed]
        \* the reads of the handles up to each conversion, and the release
        passes == Ev("pass", <<pre["CalPara"], pre["Spectrum"], pre["Data"],
                               pre["Desc"], pre["Group"]>>)
        frees == Ev("release", <<data["CalPara"], data["Spectrum"], data["Data"],
                                 data["Desc"], data["Group"]>>)
        rdS == Ev("read", <<data["Spectrum"]>>)
        rdAD == rdS \o Ev("read", <<data["Data"]>>)
        rdLoop == rdAD \o (IF Len(full.Data) > 0 /\ data["Data"] # NullH
                           THEN Ev("read", <<data["Data"], data["Desc"], data["Group"]>>)
                           ELSE <<>>)
        rdCP == rdLoop \o Ev("read", <<data["CalPara"]>>)
        hl == passes \o Order(rdCP, frees)
        s == convert_LVArrayBase(data["Spectrum"], Seen(data["Spectrum"], full.Spectrum, hl),
                                 "float32", npFail # "Spectrum")
        ad == convert_LVArrayBase(data["Data"], Seen(data["Data"], full.Data, hl),
                                  "float32", npFail # "Data")
        n_add_data == IF ad.arr = NULL THEN 0 ELSE Len(ad.arr.v)
        loop == AddDataLoop(0, n_add_data,
                            [Data |-> Seen(data["Data"], full.Data, hl),
                             Desc |-> full.Desc, Group |-> full.Group,
                             hDesc |-> data["Desc"], hGroup |-> data["Group"]],
                            ubOut,
                            [list |-> PyList_New(n_add_data), log |-> <<>>,
                             ub |-> {}, crashed |-> FALSE])
        cp == convert_LVArrayBase(data["CalPara"], Seen(data["CalPara"], full.CalPara, hl),
                                  "float64", npFail # "CalPara")
        f == "GetNextFullcycle"
    IN  IF err # IcReturnType_ok
        THEN DoneH(f, a, calls, o, FailResult(err, NpArray("float32", full.Spectrum)),
                   StatusExc(err), freed, h, {}, "foreign_fail",
                   passes \o Order(<<>>, frees))
        ELSE IF s.arr = NULL
        THEN DoneH(f, a, calls, o, NULL, Append(s.log, "RuntimeError"),
                   freed, h, {}, "conv_spectrum_fail", passes \o Order(rdS, frees))
        ELSE IF ad.arr = NULL
        THEN DoneH(f, a, calls, o, NULL, Append(ad.log, "RuntimeError"),
                   freed, h, {}, "conv_adddata_fail", passes \o Order(rdAD, frees))
        ELSE IF loop.crashed
        THEN Crash(f, a, calls, o, h, zero, loop.ub, passes \o rdLoop)
        ELSE IF cp.arr = NULL
        THEN DoneH(f, a, calls, o, NULL, loop.log \o Append(cp.log, "RuntimeError"),
                   freed, h, loop.ub, "conv_calpara_fail", hl)
        ELSE DoneH(f, a, calls, o,
                   PyTuple(<<convert_IcTimingInfo(full.TimingInfo),
                             convert_Automation(full.Automation),
                             s.arr, cp.arr, PyList(loop.list)>>),
                   loop.log, freed, h, loop.ub, "success", hl)

\* string-handle arrays of n elements: all "A" but at most one element, which
\* is a null handle or any byte string
StrElems == {NullStr} \cup {Str(b) : b \in ByteStrs}
DefaultStrs(n) == [i \in 1..n |-> Str(<<65>>)]
StrArrays(n) ==
    {DefaultStrs(n)} \cup
    {[DefaultStrs(n) EXCEPT ![k] = e] : k \in 1..n, e \in StrElems}

\* the add-data values: n distinct floats
DataOf(n) == [i \in 1..n |-> i]

CanonTiming == [Cycle |-> 0, CycleOverall |-> 1, relTime |-> 5, absTime |-> 6]

MkFull(timing, autos, calpara, spectrum, nData, desc, group) ==
    [TimingInfo |-> timing, Automation |-> autos, CalPara |-> calpara,
     Spectrum |-> spectrum, Data |-> DataOf(nData), Desc |-> desc, Group |-> group]

CanonFull ==
    MkFull(CanonTiming, [i \in 1..n_autos |-> i], <<3, 4>>, <<1, 2>>,
           1, DefaultStrs(1), DefaultStrs(1))

\* The records the foreign side delivers: the add-data arrays vary (their
\* three lengths independently, one element of one array) with the other
\* fields fixed, or the other fields vary with one add-data entry.
FullRecords ==
    {MkFull(CanonTiming, [i \in 1..n_autos |-> i], <<3, 4>>, <<1, 2>>,
            nData, desc, DefaultStrs(nGroup)) :
        nData \in 0..MaxAddData, nGroup \in 0..MaxAddData,
        desc \in UNION {StrArrays(n) : n \in 0..MaxAddData}}
    \cup
    {MkFull(CanonTiming, [i \in 1..n_autos |-> i], <<3, 4>>, <<1, 2>>,
            nData, DefaultStrs(nDesc), group) :
        nData \in 0..MaxAddData, nDesc \in 0..MaxAddData,
        group \in UNION {StrArrays(n) : n \in 0..MaxAddData}}
    \cup
    {MkFull(timing, autos, calpara, spectrum, 1, DefaultStrs(1), DefaultStrs(1)) :
        timing \in TimingInfos, autos \in Automations, calpara \in CalPars,
        spectrum \in FloatArrs}

\* The inputs explored.  Allocation failures, replaced handles, numpy
\* failures, the statuses other than ok and the arguments are explored with
\* one delivered record; the delivered record varies when the call is
\* answered ok and the handles behave.
FullcycleInputs ==
    {[t |-> t, nargs |-> nargs, nulls |-> nulls, repl |-> repl, ubOut |-> ubOut,
      err |-> err, full |-> CanonFull, npFail |-> "none"] :
        t \in Timeouts, nargs \in 1..4,
        nulls \in NullSets(FullcycleFields),
        repl \in NullSets(FullcycleFields) \cup {FullcycleFields},
        ubOut \in {"crash"}, err \in Statuses}
    \cup
    {[t |-> DefaultTimeout, nargs |-> 2,
      nulls |-> nulls, repl |-> repl, ubOut |-> ubOut,
      err |-> IcReturnType_ok, full |-> CanonFull, npFail |-> npFail] :
        nulls \in NullSets(FullcycleFields),
        repl \in NullSets(FullcycleFields) \cup {FullcycleFields},
        ubOut \in UBOutcomes, npFail \in {"none", "Spectrum", "Data", "CalPara"}}
    \cup
    {[t |-> DefaultTimeout, nargs |-> 2,
      nulls |-> {}, repl |-> {}, ubOut |-> ubOut,
      err |-> IcReturnType_ok, full |-> full, npFail |-> "none"] :
        ubOut \in UBOutcomes, full \in FullRecords}

icapi_GetNextFullcycle ==
    /\ Idle
    /\ \E in \in FullcycleInputs :
        LET a == [timeoutGiven |-> in.nargs >= 2,
                  timeout_ms |-> IF in.nargs >= 2 THEN in.t ELSE DefaultTimeout,
                  n_timebins |-> IF in.nargs >= 3 THEN MaxLen ELSE DefaultTimebins,
                  n_add_data |-> IF in.nargs >= 4 THEN MaxAddData ELSE DefaultAddData]
        IN  IF ~PyArg_ParseTuple(Format("GetNextFullcycle"), in.nargs)
            THEN ParseFail("GetNextFullcycle", a)
            ELSE NextFullcycle(a, in.nulls, in.repl, in.ubOut, in.err, in.full,
                               in.npFail)

(***************************************************************************)
(* sync'n'subscribe functions                                              *)
(***************************************************************************)
\* A variant that returns the whole timing tuple.
NextTimecycle_timing(a, err, timing) ==
    LET calls == <<[op |-> "IcAPI_GetNextTimecycle", status |-> err,
                    timeout |-> a.timeout]>>
        o == [timing |-> timing]
    IN  IF err # IcReturnType_ok
        THEN Done("GetNextTimecycle", a, calls, o, NULL, StatusExc(err),
                  NoRel, {}, {}, "foreign_fail")
        ELSE Done("GetNextTimecycle", a, calls, o, convert_IcTimingInfo(timing),
                  <<>>, NoRel, {}, {}, "success")

NextTimecycle(a, err, timing) ==
    LET calls == <<[op |-> "IcAPI_GetNextTimecycle", status |-> err,
                    timeout |-> a.timeout]>>
        o == [timing |-> timing]
    IN  IF err # IcReturnType_ok
        THEN Done("GetNextTimecycle", a, calls, o,
                  FailResult(err, PyTuple(<<PyInt(timing.Cycle), PyInt(timing.CycleOverall)>>)),
                  StatusExc(err),
                  NoRel, {}, {}, "foreign_fail")
        ELSE Done("GetNextTimecycle", a, calls, o,
                  PyTuple(<<PyInt(timing.Cycle), PyInt(timing.CycleOverall)>>),
                  <<>>, NoRel, {}, {}, "success")

icapi_GetNextTimecycle ==
    /\ Idle
    /\ \E nargs \in 1..2, t \in Timeouts, err \in Statuses, timing \in TimingInfos :
        LET a == [timeoutGiven |-> nargs >= 2,
                  timeout |-> IF nargs >= 2 THEN t ELSE DefaultTimeout]
        IN  IF ~PyArg_ParseTuple(Format("GetNextTimecycle"), nargs)
            THEN ParseFail("GetNextTimecycle", a)
            ELSE NextTimecycle(a, err, timing)

\* A variant that asks for the number of timebins in every call.
NextSpectrum_always(a, tbStatus, timebins, npOk, err, timing, autos, calpars, spec) ==
    LET ask == TRUE
        q == [op |-> "IcAPI_GetNumberOfTimebins", status |-> tbStatus,
              answer |-> timebins]
        pre == IF ask THEN <<q>> ELSE <<>>
        n == IF ask THEN timebins ELSE a.n_timebins
        buf == Written(n, spec)
        call == [op |-> "IcAPI_GetNextSpec", status |-> err, timeout |-> a.timeout_ms,
                 len |-> N_CAL_PARS, len2 |-> n]
        o == [timing |-> timing, autos |-> autos, calpars |-> calpars, spectrum |-> buf]
    IN  IF ask /\ tbStatus # IcReturnType_ok
        THEN Done("GetNextSpectrum", a, pre, <<>>, NULL, <<"IOError">>,
                  NoRel, {}, {}, "count_fail")
        ELSE IF ~npOk
        THEN Done("GetNextSpectrum", a, pre, <<>>, NULL, <<"MemoryError", "RuntimeError">>,
                  NoRel, {}, {}, "alloc_fail")
        ELSE IF err # IcReturnType_ok
        THEN Done("GetNextSpectrum", a, Append(pre, call), o,
                  FailResult(err, NpArray("float32", buf)), StatusExc(err),
                  NoRel, {}, {}, "foreign_fail")
        ELSE Done("GetNextSpectrum", a, Append(pre, call), o,
                  PyTuple(<<convert_IcTimingInfo(timing),
                            convert_Automation(autos),
                            NpArray("float32", buf),
                            PyTuple(<<PyFloat(calpars[1]), PyFloat(calpars[2])>>)>>),
                  <<>>, NoRel, {}, {}, "success")

\* a: the arguments; tbStatus, timebins: what IcAPI_GetNumberOfTimebins
\* answers when asked; npOk: PyArray_EMPTY succeeds; err, timing, autos,
\* calpars, spec: what IcAPI_GetNextSpec answers and writes.
NextSpectrum(a, tbStatus, timebins, npOk, err, timing, autos, calpars, spec) ==
    LET ask == a.n_timebins < 0
        q == [op |-> "IcAPI_GetNumberOfTimebins", status |-> tbStatus,
              answer |-> timebins]
        pre == IF ask THEN <<q>> ELSE <<>>
        n == IF ask THEN timebins ELSE a.n_timebins
        buf == Written(n, spec)
        call == [op |-> "IcAPI_GetNextSpec", status |-> err, timeout |-> a.timeout_ms,
                 len |-> N_CAL_PARS, len2 |-> n]
        o == [timing |-> timing, autos |-> autos, calpars |-> calpars, spectrum |-> buf]
    IN  IF ask /\ tbStatus # IcReturnType_ok
        THEN Done("GetNextSpectrum", a, pre, <<>>, NULL, <<"IOError">>,
                  NoRel, {}, {}, "count_fail")
        ELSE IF ~npOk
        THEN Done("GetNextSpectrum", a, pre, <<>>, NULL, <<"MemoryError", "RuntimeError">>,
                  NoRel, {}, {}, "alloc_fail")
        ELSE IF err # IcReturnType_ok
        THEN Done("GetNextSpectrum", a, Append(pre, call), o,
                  FailResult(err, NpArray("float32", buf)), StatusExc(err),
                  NoRel, {}, {}, "foreign_fail")
        ELSE Done("GetNextSpectrum", a, Append(pre, call), o,
                  PyTuple(<<convert_IcTimingInfo(timing),
                            convert_Automation(autos),
                            NpArray("float32", buf),
                            PyTuple(<<PyFloat(calpars[1]), PyFloat(calpars[2])>>)>>),
                  <<>>, NoRel, {}, {}, "success")

\* what IcAPI_GetNextSpec delivers
SpecDeliveries ==
    [timing : TimingInfos, autos : Automations, calpars : CalPars, spec : FloatArrs]
CanonSpec ==
    [timing |-> CanonTiming, autos |-> [i \in 1..n_autos |-> i], calpars |-> <<3, 4>>,
     spec |-> <<1, 2>>]

\* The inputs explored: an answer that the function does not ask for or does
\* not read is fixed, and the delivered data vary when the blocking call is
\* answered ok or timeout.
SpectrumInputs ==
    \* the count query fails
    {[given |-> FALSE, nb |-> 0 - 1, tbStatus |-> st, timebins |-> 0, npOk |-> TRUE,
      err |-> IcReturnType_ok, d |-> CanonSpec] : st \in Statuses \ {IcReturnType_ok}}
    \cup
    \* the count is passed in (nb >= 0), or asked for (nb < 0) and answered
    {[given |-> given, nb |-> nb, tbStatus |-> IcReturnType_ok, timebins |-> timebins,
      npOk |-> npOk, err |-> err, d |-> d] :
        given \in BOOLEAN, nb \in (0 - 1)..MaxLen, timebins \in 0..MaxLen,
        npOk \in BOOLEAN, err \in Statuses, d \in {CanonSpec}}
    \cup
    {[given |-> given, nb |-> nb, tbStatus |-> IcReturnType_ok, timebins |-> timebins,
      npOk |-> TRUE, err |-> err, d |-> d] :
        given \in BOOLEAN, nb \in (0 - 1)..MaxLen, timebins \in 0..MaxLen,
        err \in {IcReturnType_ok, IcReturnType_timeout}, d \in SpecDeliveries}

icapi_GetNextSpectrum ==
    /\ Idle
    /\ \E nargs \in 1..3, t \in Timeouts, in \in SpectrumInputs :
        LET a == [timeoutGiven |-> nargs >= 2,
                  timeout_ms |-> IF nargs >= 2 THEN t ELSE DefaultTimeout,
                  binsGiven |-> in.given, n_timebins |-> in.nb]
        IN  /\ in.given <=> nargs = 3
            /\ ~in.given => in.nb = 0 - 1
            /\ in.nb >= 0 => in.timebins = 0
            /\ IF ~PyArg_ParseTuple(Format("GetNextSpectrum"), nargs)
               THEN ParseFail("GetNextSpectrum", a)
               ELSE NextSpectrum(a, in.tbStatus, in.timebins, in.npOk, in.err,
                                 in.d.timing, in.d.autos, in.d.calpars, in.d.spec)

(***************************************************************************)
(* state and count functions                                               *)
(***************************************************************************)
\* A variant that tells the statuses apart as the blocking functions do.
ScalarQuery_switch(f, op, a, status, value) ==
    IF status # IcReturnType_ok
    THEN Done(f, a, <<FCall(op, status)>>, <<>>, NULL,
              IF StatusExc(status) = <<>> THEN <<"IOError">> ELSE StatusExc(status),
              NoRel, {}, {}, "foreign_fail")
    ELSE Done(f, a, <<FCall(op, status)>>, [value |-> value], PyInt(value), <<>>,
              NoRel, {}, {}, "success")

\* The pattern of the functions that make one foreign query and return an
\* integer: any status but ok is an IOError.
\* A variant that asks a second time when the first answer is not ok.
ScalarQuery_retry(f, op, a, status, value) ==
    IF status # IcReturnType_ok
    THEN Done(f, a, <<FCall(op, status), FCall(op, status)>>, <<>>, NULL, <<"IOError">>,
              NoRel, {}, {}, "foreign_fail")
    ELSE Done(f, a, <<FCall(op, status)>>, [value |-> value], PyInt(value), <<>>,
              NoRel, {}, {}, "success")

ScalarQuery(f, op, a, status, value) ==
    IF status # IcReturnType_ok
    THEN Done(f, a, <<FCall(op, status)>>, <<>>, NULL, <<"IOError">>,
              NoRel, {}, {}, "foreign_fail")
    ELSE Done(f, a, <<FCall(op, status)>>, [value |-> value], PyInt(value), <<>>,
              NoRel, {}, {}, "success")

icapi_GetNumberOfTimebins ==
    /\ Idle
    /\ \E ipOk \in BOOLEAN, status \in Statuses, timebins \in 0..MaxLen :
        IF ~ipOk THEN ParseFail("GetNumberOfTimebins", [ip |-> ipOk])
        ELSE ScalarQuery("GetNumberOfTimebins", "IcAPI_GetNumberOfTimebins",
                         [ip |-> ipOk], status, timebins)

icapi_GetMeasureState ==
    /\ Idle
    /\ \E ipOk \in BOOLEAN, status \in Statuses, state \in 0..9 :
        IF ~ipOk THEN ParseFail("GetMeasureState", [ip |-> ipOk])
        ELSE ScalarQuery("GetMeasureState", "IcAPI_GetMeasureState",
                         [ip |-> ipOk], status, state)

icapi_GetServerState ==
    /\ Idle
    /\ \E ipOk \in BOOLEAN, status \in Statuses, state \in 0..8 :
        IF ~ipOk THEN ParseFail("GetServerState", [ip |-> ipOk])
        ELSE ScalarQuery("GetServerState", "IcAPI_GetServerState",
                         [ip |-> ipOk], status, state)

icapi_GetNumberOfPeaks ==
    /\ Idle
    /\ \E ipOk \in BOOLEAN, status \in Statuses, n_peaks \in 0..MaxLen :
        IF ~ipOk THEN ParseFail("GetNumberOfPeaks", [ip |-> ipOk])
        ELSE ScalarQuery("GetNumberOfPeaks", "IcAPI_GetNumberOfPeaks",
                         [ip |-> ipOk], status, n_peaks)

(***************************************************************************)
(* mass-list functions                                                     *)
(***************************************************************************)
RECURSIVE Product(_)
Product(shape) == IF shape = <<>> THEN 1 ELSE Head(shape) * Product(Tail(shape))

PyArray_Size(arr) == Product(arr.shape)
PyArray_DIM(arr, i) == arr.shape[i + 1]

\* The checks SetTraceMasses and SetTraceData make on the array argument:
\* the exception log, empty when the array is accepted.
CheckArray(iarr) ==
    IF PyArray_Size(iarr) # PyArray_DIM(iarr, 0) THEN <<"ValueError">>
    ELSE IF iarr.dtype # "float32" THEN <<"ValueError">>
    ELSE <<>>

SetTraceMasses(a, status) ==
    LET size == PyArray_Size(a.iarr)
        call == [op |-> "IcAPI_SetTraceMasses", status |-> status, len |-> size]
    IN  IF CheckArray(a.iarr) # <<>>
        THEN Done("SetTraceMasses", a, <<>>, <<>>, NULL, CheckArray(a.iarr),
                  NoRel, {}, {}, "value_fail")
        ELSE IF status # IcReturnType_ok
        THEN Done("SetTraceMasses", a, <<call>>, <<>>, NULL, <<"IOError">>,
                  NoRel, {}, {}, "foreign_fail")
        ELSE Done("SetTraceMasses", a, <<call>>, <<>>, PyNone, <<>>,
                  NoRel, {}, {}, "success")

icapi_SetTraceMasses ==
    /\ Idle
    /\ \/ ParseFail("SetTraceMasses", [ip |-> FALSE])
       \/ \E iarr \in ArrayArgs, status \in Statuses :
            SetTraceMasses([ip |-> TRUE, iarr |-> iarr], status)

\* pkStatus, n_peaks: the answer of IcAPI_GetNumberOfPeaks; status, masses:
\* the answer of IcAPI_GetTraceMasses and the table the server holds then.
\* A variant whose array is as long as the table the server holds at the read.
GetTraceMasses_actual(a, pkStatus, n_peaks, status, masses) ==
    LET q == [op |-> "IcAPI_GetNumberOfPeaks", status |-> pkStatus]
        call == [op |-> "IcAPI_GetTraceMasses", status |-> status, len |-> n_peaks]
        o == [table |-> masses, data |-> masses]
    IN  IF pkStatus # IcReturnType_ok
        THEN Done("GetTraceMasses", a, <<q>>, <<>>, NULL, <<"IOError">>,
                  NoRel, {}, {}, "count_fail")
        ELSE IF status # IcReturnType_ok
        THEN Done("GetTraceMasses", a, <<q, call>>, o, NULL, <<"IOError">>,
                  NoRel, {}, {}, "foreign_fail")
        ELSE Done("GetTraceMasses", a, <<q, call>>, o, NpArray("float32", masses), <<>>,
                  NoRel, {}, {}, "success")

\* A variant that asks for the number of peaks again after the read.
GetTraceMasses_requery(a, pkStatus, n_peaks, status, masses) ==
    LET q == [op |-> "IcAPI_GetNumberOfPeaks", status |-> pkStatus]
        call == [op |-> "IcAPI_GetTraceMasses", status |-> status, len |-> n_peaks]
        buf == Written(n_peaks, masses)
        o == [table |-> masses, data |-> buf]
    IN  IF pkStatus # IcReturnType_ok
        THEN Done("GetTraceMasses", a, <<q>>, <<>>, NULL, <<"IOError">>,
                  NoRel, {}, {}, "count_fail")
        ELSE IF status # IcReturnType_ok
        THEN Done("GetTraceMasses", a, <<q, call>>, o, NULL, <<"IOError">>,
                  NoRel, {}, {}, "foreign_fail")
        ELSE Done("GetTraceMasses", a, <<q, call, call>>, o, NpArray("float32", buf),
                  <<>>, NoRel, {}, {}, "success")

GetTraceMasses(a, pkStatus, n_peaks, status, masses) ==
    LET q == [op |-> "IcAPI_GetNumberOfPeaks", status |-> pkStatus]
        call == [op |-> "IcAPI_GetTraceMasses", status |-> status, len |-> n_peaks]
        buf == Written(n_peaks, masses)
        o == [table |-> masses, data |-> buf]
    IN  IF pkStatus # IcReturnType_ok
        THEN Done("GetTraceMasses", a, <<q>>, <<>>, NULL, <<"IOError">>,
                  NoRel, {}, {}, "count_fail")
        ELSE IF status # IcReturnType_ok
        THEN Done("GetTraceMasses", a, <<q, call>>, o, NULL, <<"IOError">>,
                  NoRel, {}, {}, "foreign_fail")
        ELSE Done("GetTraceMasses", a, <<q, call>>, o, NpArray("float32", buf), <<>>,
                  NoRel, {}, {}, "success")

icapi_GetTraceMasses ==
    /\ Idle
    /\ \/ ParseFail("GetTraceMasses", [ip |-> FALSE])
       \/ \E pkStatus \in Statuses, n_peaks \in 0..MaxLen, status \in Statuses,
             masses \in FloatArrs :
            GetTraceMasses([ip |-> TRUE], pkStatus, n_peaks, status, masses)

(***************************************************************************)
(* tracedata functions                                                     *)
(***************************************************************************)
\* A variant that fills the fields in the order the struct declares them
\* (Cycle, CycleOverall, absTime, relTime).
convert_tc_tuple_declared(tc_tuple) ==
    LET t == tc_tuple.v
        good == /\ tc_tuple.kind = "tuple"
                /\ Len(t) = 4
                /\ t[1].kind = "int" /\ t[2].kind = "int"
                /\ t[3].kind \in {"int", "float"} /\ t[4].kind \in {"int", "float"}
    IN  IF good
        THEN [ok |-> TRUE,
              out |-> [Cycle |-> t[1].v, CycleOverall |-> t[2].v,
                       absTime |-> t[3].v, relTime |-> t[4].v]]
        ELSE [ok |-> FALSE, out |-> <<>>]

\* PyArg_ParseTuple(tc_tuple, "iidd"): two ints, then two numbers.
convert_tc_tuple(tc_tuple) ==
    LET t == tc_tuple.v
        good == /\ tc_tuple.kind = "tuple"
                /\ Len(t) = 4
                /\ t[1].kind = "int" /\ t[2].kind = "int"
                /\ t[3].kind \in {"int", "float"} /\ t[4].kind \in {"int", "float"}
    IN  IF good
        THEN [ok |-> TRUE,
              out |-> [Cycle |-> t[1].v, CycleOverall |-> t[2].v,
                       relTime |-> t[3].v, absTime |-> t[4].v]]
        ELSE [ok |-> FALSE, out |-> <<>>]

TraceTypeOk(trace_type) == (0 <= trace_type) /\ (trace_type < 3)

SetTraceData(a, status) ==
    LET tc == convert_tc_tuple(a.tc_tup)
        call == [op |-> "IcAPI_SetTraceDataWithTimingInfo", status |-> status,
                 timing |-> tc.out, trace_type |-> a.trace_type,
                 len |-> PyArray_DIM(a.iarr, 0)]
    IN  IF ~TraceTypeOk(a.trace_type)
        THEN Done("SetTraceData", a, <<>>, <<>>, NULL, <<"ValueError">>,
                  NoRel, {}, {}, "value_fail")
        ELSE IF CheckArray(a.iarr) # <<>>
        THEN Done("SetTraceData", a, <<>>, <<>>, NULL, CheckArray(a.iarr),
                  NoRel, {}, {}, "value_fail")
        ELSE IF ~tc.ok
        THEN Done("SetTraceData", a, <<>>, <<>>, NULL, <<"TypeError">>,
                  NoRel, {}, {}, "tuple_fail")
        ELSE IF status # IcReturnType_ok
        THEN Done("SetTraceData", a, <<call>>, <<>>, NULL, <<"IOError">>,
                  NoRel, {}, {}, "foreign_fail")
        ELSE Done("SetTraceData", a, <<call>>, <<>>, PyNone, <<>>,
                  NoRel, {}, {}, "success")

\* timing tuples a caller passes: the converted TimingInfos, one with ints
\* for the times, one too short, one with a float for a cycle number
TcArgs ==
    {convert_IcTimingInfo(t) : t \in TimingInfos}
    \cup {PyTuple(<<PyInt(0), PyInt(1), PyInt(5), PyInt(6)>>),
          PyTuple(<<PyInt(0), PyInt(1), PyFloat(5)>>),
          PyTuple(<<PyFloat(5), PyInt(1), PyFloat(5), PyFloat(6)>>)}

icapi_SetTraceData ==
    /\ Idle
    /\ \/ ParseFail("SetTraceData", [ip |-> FALSE])
       \/ \E tt \in TraceTypes, tc \in TcArgs, iarr \in ArrayArgs, status \in Statuses :
            SetTraceData([ip |-> TRUE, trace_type |-> tt, tc_tup |-> tc, iarr |-> iarr],
                         status)

\* pkStatus, n_peaks: the answer of IcAPI_GetNumberOfPeaks; err, timing,
\* data: the answer of IcAPI_GetTraceDataWithTimingInfo and the trace the
\* server holds then (on a timeout: the last trace).
GetTraceData(a, pkStatus, n_peaks, err, timing, data) ==
    LET q == [op |-> "IcAPI_GetNumberOfPeaks", status |-> pkStatus]
        call == [op |-> "IcAPI_GetTraceDataWithTimingInfo", status |-> err,
                 timeout |-> a.timeout_ms, trace_type |-> a.trace_type,
                 len |-> n_peaks]
        buf == Written(n_peaks, data)
        o == [timing |-> timing, trace |-> data, data |-> buf]
    IN  IF ~TraceTypeOk(a.trace_type)
        THEN Done("GetTraceData", a, <<>>, <<>>, NULL, <<"ValueError">>,
                  NoRel, {}, {}, "value_fail")
        ELSE IF pkStatus # IcReturnType_ok
        THEN Done("GetTraceData", a, <<q>>, <<>>, NULL, <<"IOError">>,
                  NoRel, {}, {}, "count_fail")
        ELSE IF err # IcReturnType_ok
        THEN Done("GetTraceData", a, <<q, call>>, o,
                  FailResult(err, NpArray("float32", buf)), StatusExc(err),
                  NoRel, {}, {}, "foreign_fail")
        ELSE Done("GetTraceData", a, <<q, call>>, o,
                  PyTuple(<<convert_IcTimingInfo(timing), NpArray("float32", buf)>>),
                  <<>>, NoRel, {}, {}, "success")

\* The inputs explored: an answer that the function does not ask for or does
\* not read is fixed, and the delivered data vary when the blocking call is
\* answered ok or timeout.
TraceDataInputs ==
    {[tt |-> tt, pkStatus |-> IcReturnType_ok, n_peaks |-> 0, err |-> IcReturnType_ok,
      timing |-> CanonTiming, data |-> <<1, 2>>] : tt \in {x \in TraceTypes : ~TraceTypeOk(x)}}
    \cup
    {[tt |-> tt, pkStatus |-> st, n_peaks |-> 0, err |-> IcReturnType_ok,
      timing |-> CanonTiming, data |-> <<1, 2>>] :
        tt \in {x \in TraceTypes : TraceTypeOk(x)}, st \in Statuses \ {IcReturnType_ok}}
    \cup
    {[tt |-> tt, pkStatus |-> IcReturnType_ok, n_peaks |-> n_peaks, err |-> err,
      timing |-> CanonTiming, data |-> <<1, 2>>] :
        tt \in {x \in TraceTypes : TraceTypeOk(x)}, n_peaks \in 0..MaxLen,
        err \in Statuses}
    \cup
    {[tt |-> tt, pkStatus |-> IcReturnType_ok, n_peaks |-> n_peaks, err |-> err,
      timing |-> timing, data |-> data] :
        tt \in {x \in TraceTypes : TraceTypeOk(x)}, n_peaks \in 0..MaxLen,
        err \in {IcReturnType_ok, IcReturnType_timeout},
        timing \in TimingInfos, data \in FloatArrs}

icapi_GetTraceData ==
    /\ Idle
    /\ \E nargs \in 1..3, t \in Timeouts, in \in TraceDataInputs :
        LET a == [timeoutGiven |-> nargs >= 2,
                  timeout_ms |-> IF nargs >= 2 THEN t ELSE DefaultTimeout,
                  trace_type |-> IF nargs >= 3 THEN in.tt ELSE 0]
        IN  IF ~PyArg_ParseTuple(Format("GetTraceData"), nargs)
            THEN ParseFail("GetTraceData", a)
            ELSE GetTraceData(a, in.pkStatus, in.n_peaks, in.err, in.timing, in.data)

(***************************************************************************)
(* file name and version                                                   *)
(***************************************************************************)
\* The buffer char s_file[MAX_PATH_LEN] after the foreign call: the name,
\* then a NUL when the name is terminated inside the buffer, then bytes
\* that do not belong to the name.
FileBuffer(name, terminated) ==
    [i \in 1..MAX_PATH_LEN |->
        IF i <= Len(name) THEN name[i]
        ELSE IF terminated /\ i = Len(name) + 1 THEN 0
        ELSE 66]

HasNul(buf) == \E i \in 1..Len(buf) : buf[i] = 0

\* strlen: the number of bytes in front of the first NUL.  Without a NUL in
\* the buffer the scan runs past its end (undefined) and stops beyond bytes
\* further on.
strlen(buf, beyond) ==
    IF HasNul(buf)
    THEN (CHOOSE i \in 1..Len(buf) : buf[i] = 0 /\ \A j \in 1..(i - 1) : buf[j] # 0) - 1
    ELSE Len(buf) + beyond

\* PyUnicode_DecodeLatin1(s, size, errors): one code point per byte
PyUnicode_DecodeLatin1(s, size) == [i \in 1..size |-> s[i]]

CurrentDataFileName(a, status, name, terminated, beyond) ==
    LET s_file == FileBuffer(name, terminated)
        calls == <<[op |-> "IcAPI_GetCurrentDataFileName", status |-> status,
                    len |-> MAX_PATH_LEN]>>
        s_len == IF strlen(s_file, beyond) < MAX_PATH_LEN
                 THEN strlen(s_file, beyond) ELSE MAX_PATH_LEN
        u == IF HasNul(s_file) THEN {} ELSE {"oob_read"}
    IN  IF status # IcReturnType_ok
        THEN Done("GetCurrentDataFileName", a, calls, <<>>, NULL, <<"IOError">>,
                  NoRel, {}, {}, "foreign_fail")
        ELSE Done("GetCurrentDataFileName", a, calls, [s_file |-> s_file],
                  PyStr(PyUnicode_DecodeLatin1(s_file, s_len)), <<>>,
                  NoRel, {}, u, "success")

icapi_GetCurrentDataFileName ==
    /\ Idle
    /\ \/ ParseFail("GetCurrentDataFileName", [ip |-> FALSE])
       \/ \E status \in Statuses, name \in ByteStrs, terminated \in BOOLEAN,
             beyond \in 0..1 :
            /\ terminated => beyond = 0
            /\ CurrentDataFileName([ip |-> TRUE], status, name, terminated, beyond)

\* IcAPI_GetVersion returns no status; the version string is decoded as
\* UTF-8 (PyUnicode_FromString).
icapi_GetVersion ==
    /\ Idle
    /\ \E version_string \in ByteStrs :
        LET dec == DecodeUTF8(version_string)
            calls == <<[op |-> "IcAPI_GetVersion", status |-> IcReturnType_ok]>>
            o == [version_string |-> version_string]
        IN  IF dec.ok
            THEN Done("GetVersion", <<>>, calls, o, PyStr(dec.text), <<>>,
                      NoRel, {}, {}, "success")
            ELSE Done("GetVersion", <<>>, calls, o, NULL, <<"UnicodeDecodeError">>,
                      NoRel, {}, {}, "build_fail")


Next ==
    \/ icapi_GetNumberOfTimebins
    \/ icapi_GetMeasureState
    \/ icapi_GetServerState
    \/ icapi_GetNumberOfPeaks
    \/ icapi_GetNextTimecycle
    \/ icapi_GetNextSpectrum
    \/ icapi_SetTraceMasses
    \/ icapi_GetTraceMasses
    \/ icapi_SetTraceData
    \/ icapi_GetTraceData
    \/ icapi_GetCurrentPrimaryIon
    \/ icapi_GetCurrentTransmission
    \/ icapi_GetNextFullcycle
    \/ icapi_GetCurrentDataFileName
    \/ icapi_GetVersion
    \/ Return

Spec == Init /\ [][Next]_vars

(***************************************************************************)
(* One caller, one call after the other                                    *)
(***************************************************************************)
\* The interpreter the module is built for either keeps None immortal
\* (3.12 and later) or counts its references.
InitSerial ==
    /\ InitCall
    /\ srvCycle = 0
    /\ lastOverall = 0 - 1
    /\ interp \in [immortal : BOOLEAN, none_refcnt : {MaxNoneRefs}, alive : {TRUE}]
    /\ probe = [first |-> "none", last |-> "none"]
    /\ InitThreads
    /\ server_actions = BuildServerActions

\* The server goes on to its next overall cycle; it never goes back.
ServerAdvance ==
    /\ srvCycle < MaxCycle
    /\ srvCycle' = srvCycle + 1
    /\ UNCHANGED <<callVars, lastOverall, interp, probe, threadVars, server_actions>>

\* What the server delivers for the cycle it is in: the overall cycle is
\* the server's, the cycle within the measurement is any.
ServerTiming(c) ==
    [Cycle |-> c, CycleOverall |-> srvCycle, relTime |-> 5, absTime |-> 6]

Serial_GetNextTimecycle ==
    /\ Idle /\ interp.alive
    /\ \E err \in Statuses, c \in 0..MaxCycle :
        NextTimecycle([timeoutGiven |-> TRUE, timeout |-> DefaultTimeout], err,
                      ServerTiming(c))

Serial_GetNextSpectrum ==
    /\ Idle /\ interp.alive
    /\ \E err \in Statuses, c \in 0..MaxCycle :
        NextSpectrum([timeoutGiven |-> TRUE, timeout_ms |-> DefaultTimeout,
                      binsGiven |-> TRUE, n_timebins |-> MaxLen],
                     IcReturnType_ok, 0, TRUE, err, ServerTiming(c),
                     CanonSpec.autos, CanonSpec.calpars, CanonSpec.spec)

Serial_GetNextFullcycle ==
    /\ Idle /\ interp.alive
    /\ \E err \in Statuses, c \in 0..MaxCycle :
        NextFullcycle([timeoutGiven |-> TRUE, timeout_ms |-> DefaultTimeout,
                       n_timebins |-> DefaultTimebins, n_add_data |-> DefaultAddData],
                      {}, {}, "crash", err,
                      [CanonFull EXCEPT !.TimingInfo = ServerTiming(c)], "none")

\* an array argument the two Set functions accept
ValidArr == [shape |-> <<MaxLen>>, dtype |-> "float32"]

Serial_SetTraceMasses ==
    /\ Idle /\ interp.alive
    /\ \E status \in Statuses :
        SetTraceMasses([ip |-> TRUE, iarr |-> ValidArr], status)

Serial_SetTraceData ==
    /\ Idle /\ interp.alive
    /\ \E status \in Statuses :
        SetTraceData([ip |-> TRUE, trace_type |-> 0,
                      tc_tup |-> convert_IcTimingInfo(CanonTiming), iarr |-> ValidArr],
                     status)

\* the overall cycle in the result of a 'next' function
NextFns == {"GetNextTimecycle", "GetNextSpectrum", "GetNextFullcycle"}
OverallOf(f, r) == IF f = "GetNextTimecycle" THEN r.v[2].v ELSE r.v[1].v[2].v

\* Py_DECREF of a reference to None: the count of a mortal None goes down by
\* one, and at zero the interpreter ends with a fatal error.
Py_DECREF_None(ip) ==
    IF ip.immortal THEN ip
    ELSE [ip EXCEPT !.none_refcnt = @ - 1, !.alive = ip.none_refcnt - 1 > 0]

\* The caller takes the result and drops it when done with it.  SetTraceMasses
\* and SetTraceData return Py_None without a reference of their own, so the
\* reference the caller drops is one of the interpreter's.
Taken ==
    /\ ~Idle /\ interp.alive
    /\ Rec("none", <<>>, <<>>, <<>>, NULL, <<>>, NoRel, {}, {}, "init", <<>>)
    /\ lastOverall' = IF fn \in NextFns /\ path = "success"
                      THEN OverallOf(fn, rv) ELSE lastOverall
    /\ interp' = IF rv = PyNone THEN Py_DECREF_None(interp) ELSE interp
    /\ probe' = IF fn = "SetTraceMasses" /\ path = "success"
                THEN LET end == IF interp'.alive THEN "returned" ELSE "fatal"
                     IN  [first |-> IF probe.first = "none" THEN end ELSE probe.first,
                          last |-> end]
                ELSE probe
    /\ UNCHANGED <<srvCycle, threadVars, server_actions>>

NextSerial ==
    \/ ServerAdvance
    \/ Serial_GetNextTimecycle
    \/ Serial_GetNextSpectrum
    \/ Serial_GetNextFullcycle
    \/ Serial_SetTraceMasses
    \/ Serial_SetTraceData
    \/ Taken

SpecSerial == InitSerial /\ [][NextSerial]_vars

(***************************************************************************)
(* Calls from several threads                                              *)
(***************************************************************************)
\* The functions that hold handles during a call, each with the number of
\* handles it allocates, and the functions that wait in their foreign call.
HandleCount ==
    [GetNextFullcycle |-> Cardinality(FullcycleFields),
     GetCurrentPrimaryIon |-> Cardinality({PrimaryIonFields[x] : x \in DOMAIN PrimaryIonFields}),
     GetCurrentTransmission |-> Cardinality({TransmissionFields[x] : x \in DOMAIN TransmissionFields}),
     GetNextTimecycle |-> 0, GetNextSpectrum |-> 0, GetTraceData |-> 0]
ThreadFns == DOMAIN HandleCount
WaitingFns == {"GetNextTimecycle", "GetNextSpectrum", "GetNextFullcycle", "GetTraceData"}

\* A variant in which the record of a call is one static object.
Slot_static(t) == 1

\* The record of a call (IcFullcycle data; the handles of the two Current
\* functions) is a local variable of the function: one per call, so one per
\* thread.
Slot(t) == t

\* The allocator of the foreign side hands out handles that are not in use;
\* which of them does not matter, so it is the lowest ones.
RECURSIVE Lowest(_, _)
Lowest(n, S) ==
    IF n = 0 \/ S = {} THEN {}
    ELSE LET m == CHOOSE x \in S : \A y \in S : x <= y
         IN  {m} \cup Lowest(n - 1, S \ {m})
FreeHandles == {h \in Handles : heap[h] = 0}

\* a use of the handles hs by thread t, with the threads they belong to
Op(t, e, hs, hp) == [t |-> t, e |-> e, hs |-> hs, owners |-> {hp[h] : h \in hs}]

\* Thread t enters function f: the handles are allocated and stored in the
\* record, and the foreign call is made with the record.  The two Current
\* functions are answered at once; the others wait for their answer.
Th_Enter(t, f) ==
    /\ gil = t /\ pc[t] = "idle"
    /\ Cardinality(FreeHandles) >= HandleCount[f]
    /\ LET hs == Lowest(HandleCount[f], FreeHandles)
       IN  /\ heap' = [h \in Handles |-> IF h \in hs THEN t ELSE heap[h]]
           /\ frame' = [frame EXCEPT ![Slot(t)] = hs]
           /\ lastOp' = Op(t, "pass", frame'[Slot(t)], heap')
    /\ tfn' = [tfn EXCEPT ![t] = f]
    /\ \E err \in Statuses :
        pc' = [pc EXCEPT ![t] = IF f \in WaitingFns THEN "waiting"
                                ELSE IF err = IcReturnType_ok THEN "convert"
                                ELSE "release"]
    /\ UNCHANGED <<gil, callVars, serialVars, server_actions>>

\* The foreign call of a waiting function returns (data, timeout or error).
\* No function releases the interpreter lock around its foreign call, so the
\* thread has held it all the time.
Th_ForeignReturns(t) ==
    /\ gil = t /\ pc[t] = "waiting"
    /\ \E err \in Statuses :
        LET to == IF HandleCount[tfn[t]] = 0 THEN "idle"
                  ELSE IF err = IcReturnType_ok THEN "convert" ELSE "release"
        IN  /\ pc' = [pc EXCEPT ![t] = to]
            /\ tfn' = [tfn EXCEPT ![t] = IF to = "idle" THEN "none" ELSE @]
    /\ UNCHANGED <<gil, frame, heap, lastOp, callVars, serialVars, server_actions>>

\* The conversions read the handles of the record.
Th_Convert(t) ==
    /\ gil = t /\ pc[t] = "convert"
    /\ lastOp' = Op(t, "read", frame[Slot(t)], heap)
    /\ pc' = [pc EXCEPT ![t] = "release"]
    /\ UNCHANGED <<gil, tfn, frame, heap, callVars, serialVars, server_actions>>

\* The handles of the record are released and the function returns.
Th_Release(t) ==
    /\ gil = t /\ pc[t] = "release"
    /\ lastOp' = Op(t, "release", frame[Slot(t)], heap)
    /\ heap' = [h \in Handles |-> IF h \in frame[Slot(t)] THEN 0 ELSE heap[h]]
    /\ frame' = [frame EXCEPT ![Slot(t)] = {}]
    /\ pc' = [pc EXCEPT ![t] = "idle"]
    /\ tfn' = [tfn EXCEPT ![t] = "none"]
    /\ UNCHANGED <<gil, callVars, serialVars, server_actions>>

\* The interpreter lock goes to another thread: between two bytecodes of a
\* thread that is in no call, or inside a call where the interpreter creates
\* an object (PyArray_EMPTY, PyList_New, Py_BuildValue) and its collector
\* runs code that gives the lock away.
Th_Switch(t, u) ==
    /\ gil = t /\ u # t
    /\ pc[t] \in {"idle", "convert", "release"}
    /\ gil' = u
    /\ UNCHANGED <<pc, tfn, frame, heap, lastOp, callVars, serialVars, server_actions>>

NextThreads ==
    \/ \E t \in Threads, f \in ThreadFns : Th_Enter(t, f)
    \/ \E t \in Threads : Th_ForeignReturns(t)
    \/ \E t \in Threads : Th_Convert(t)
    \/ \E t \in Threads : Th_Release(t)
    \/ \E t, u \in Threads : Th_Switch(t, u)

SpecThreads == Init /\ [][NextThreads]_vars
(***************************************************************************)
(* Properties                                                              *)
(***************************************************************************)
\* the exception pending when the function returns
Exc == Pending(excLog)

\* the functions that take a timeout, each with its blocking foreign call
BlockingCall ==
    [GetNextTimecycle |-> "IcAPI_GetNextTimecycle",
     GetNextSpectrum |-> "IcAPI_GetNextSpec",
     GetNextFullcycle |-> "IcAPI_GetNextFullCycle",
     GetTraceData |-> "IcAPI_GetTraceDataWithTimingInfo"]
TimeoutFns == DOMAIN BlockingCall

\* the call made its blocking foreign call, which returned status st
Blocked(st) ==
    /\ fn \in TimeoutFns
    /\ fcalls # <<>>
    /\ fcalls[Len(fcalls)].op = BlockingCall[fn]
    /\ fcalls[Len(fcalls)].status = st

\* some foreign call of the function returned status st
Answered(st) == \E i \in 1..Len(fcalls) : fcalls[i].status = st

RecordFns == {"GetCurrentPrimaryIon", "GetCurrentTransmission"}
CurrentFns ==
    RecordFns \cup {"GetCurrentDataFileName", "GetMeasureState", "GetServerState",
                    "GetNumberOfTimebins", "GetNumberOfPeaks", "GetTraceMasses"}

\* C1: for GetNextTimecycle, GetNextSpectrum, GetNextFullcycle and
\* GetTraceData, a blocking call that returns timeout ends the function with
\* TimeoutError, one that returns error ends it with IOError, and in both
\* cases nothing is returned.
C1_TimeoutAndErrorDistinct ==
    /\ Blocked(IcReturnType_timeout) => Exc = "TimeoutError" /\ rv = NULL
    /\ Blocked(IcReturnType_error) => Exc = "IOError" /\ rv = NULL

C1_Witness ==
    /\ fn = "GetNextFullcycle"
    /\ Blocked(IcReturnType_timeout)
    /\ Exc = "TimeoutError"

\* C2 as stated: when GetTraceData, GetNextSpectrum or GetNextFullcycle times
\* out, the data the foreign call wrote into the buffer is handed to the
\* caller.
C2_TimeoutReturnsLastData ==
    (fn \in TimeoutFns \ {"GetNextTimecycle"} /\ Blocked(IcReturnType_timeout)) =>
        /\ rv # NULL
        /\ \/ fn = "GetTraceData" /\ rv.v[2].v = out.data
           \/ fn = "GetNextSpectrum" /\ rv.v[3].v = out.spectrum
           \/ fn = "GetNextFullcycle" /\ rv.v[3].v = out.full.Spectrum

\* C2 amended: when GetTraceData, GetNextSpectrum or GetNextFullcycle times
\* out, the data the foreign call wrote is dropped: the function returns
\* nothing and TimeoutError is pending.
C2_TimeoutDropsData ==
    (fn \in TimeoutFns \ {"GetNextTimecycle"} /\ Blocked(IcReturnType_timeout)) =>
        rv = NULL /\ Exc = "TimeoutError"

C2_Witness ==
    /\ fn = "GetTraceData"
    /\ Blocked(IcReturnType_timeout)
    /\ out.data = <<1, 2>>
    /\ rv = NULL

\* C3: whenever a foreign call of a module function returns status error,
\* IOError is pending when the function returns and nothing is returned.
C3_ErrorIsIOError ==
    Answered(IcReturnType_error) => Exc = "IOError" /\ rv = NULL

\* C4: GetCurrentPrimaryIon, GetCurrentTransmission, GetCurrentDataFileName,
\* GetMeasureState, GetServerState, GetNumberOfTimebins, GetNumberOfPeaks and
\* GetTraceMasses never end with TimeoutError, whatever status the foreign
\* call returns; a function that ends with TimeoutError takes a timeout and
\* its blocking call returned timeout.
C4_NoTimeoutFromCurrent ==
    /\ fn \in CurrentFns => Exc # "TimeoutError"
    /\ Exc = "TimeoutError" => Blocked(IcReturnType_timeout)

C4_Witness ==
    /\ fn \in CurrentFns
    /\ Answered(IcReturnType_timeout)
    /\ Exc \in {"IOError", "RuntimeError"}

\* the exit paths of GetNextFullcycle behind alloc_IcFullcycle
FullcycleExits ==
    {"foreign_fail", "conv_spectrum_fail", "conv_adddata_fail",
     "conv_calpara_fail", "success"}

\* C5: on every exit path of GetNextFullcycle behind alloc_IcFullcycle, each
\* handle the record holds (CalPara, Spectrum, Data, Desc, Group) is released
\* exactly once, and no handle the foreign side disposed of is released.
C5_FullcycleReleasedOnce ==
    (fn = "GetNextFullcycle" /\ path \in FullcycleExits) =>
        /\ \A x \in FullcycleFields :
             out.after[x] # NullH => rel[out.after[x]] = 1
        /\ \A h \in out.disposed \ held : rel[h] = 0

C5_Witness ==
    /\ fn = "GetNextFullcycle"
    /\ path = "conv_calpara_fail"
    /\ Cardinality(held) = Cardinality(FullcycleFields)
    /\ out.disposed # {}
    /\ \A h \in held : rel[h] = 1

\* C6: in GetCurrentPrimaryIon and GetCurrentTransmission every handle held
\* when the foreign call returns is released exactly once, and no handle is
\* released that the foreign side disposed of.
C6_RecordReleasedOnce ==
    (fn \in RecordFns /\ path \notin {"parse_fail", "crash"}) =>
        /\ \A h \in held : rel[h] = 1
        /\ \A h \in out.disposed \ held : rel[h] = 0

\* an allocation of the call returned a null handle
AllocNull ==
    /\ fn \in RecordFns \cup {"GetNextFullcycle"}
    /\ path # "parse_fail"
    /\ \E x \in DOMAIN out.alloc : out.alloc[x] = NullH

\* C7: when an allocation of GetCurrentPrimaryIon, GetCurrentTransmission or
\* GetNextFullcycle returns a null handle, the function reports a failure: it
\* neither reads through the handle nor passes it to the foreign call.
C7_NullHandleReported ==
    AllocNull =>
        /\ rv = NULL /\ Exc # "none"
        /\ ub = {} /\ path # "crash"
        /\ fcalls = <<>>

\* the add-data arrays delivered by an answered full-cycle call differ in length
ShapeMismatch ==
    /\ fn = "GetNextFullcycle"
    /\ Blocked(IcReturnType_ok)
    /\ ~(Len(out.full.Data) = Len(out.full.Desc)
         /\ Len(out.full.Data) = Len(out.full.Group))

\* C8: when the delivered add-data arrays differ in length, GetNextFullcycle
\* fails with an exception, returns no list and reads no element beyond the
\* end of an array.
C8_ShapeMismatchFails ==
    ShapeMismatch =>
        /\ rv = NULL /\ Exc # "none"
        /\ "oob_read" \notin ub /\ path # "crash"

\* a successful full-cycle call whose add-data arrays have the same length
\* and hold a string behind every element
WellShaped ==
    /\ fn = "GetNextFullcycle"
    /\ path = "success"
    /\ Len(out.full.Data) = Len(out.full.Desc)
    /\ Len(out.full.Data) = Len(out.full.Group)
    /\ \A i \in 1..Len(out.full.Data) : out.full.Desc[i].h /\ out.full.Group[i].h

Ascii(bs) == \A i \in 1..Len(bs) : bs[i] < 128

\* C9: on success the add-data list has one entry per add-data channel: its
\* length is the length n of the delivered Data array, and entry i is built
\* from Data[i], Desc[i] and Group[i].
C9_OneEntryPerChannel ==
    (/\ WellShaped
     /\ \A i \in 1..Len(out.full.Data) :
          Ascii(out.full.Desc[i].str) /\ Ascii(out.full.Group[i].str)) =>
        LET list == rv.v[5].v
            d == out.full
        IN  /\ Len(list) = Len(d.Data)
            /\ \A i \in 1..Len(d.Data) :
                 list[i] = PyTuple(<<PyFloat(d.Data[i]), PyStr(d.Desc[i].str),
                                     PyStr(d.Group[i].str)>>)

\* the text of the same length whose i-th code point is the i-th byte
Latin1(bs) == PyStr(PyUnicode_DecodeLatin1(bs, Len(bs)))

\* C10: the string-handle fields are decoded byte by byte: the name returned
\* by GetCurrentPrimaryIon and GetCurrentTransmission, and the descriptions
\* and groups returned by GetNextFullcycle, are texts of the length of the
\* delivered bytes whose i-th code point is the i-th byte, for every byte
\* string.
C10_SingleByteDecoding ==
    /\ (fn \in RecordFns /\ path \in {"success", "build_fail"}) =>
          /\ rv # NULL
          /\ rv.v[1] = Latin1(out.data.name)
    /\ WellShaped =>
          /\ Exc = "none"
          /\ \A i \in 1..Len(out.full.Data) :
               /\ rv.v[5].v[i] # NULL
               /\ rv.v[5].v[i].v[2] = Latin1(out.full.Desc[i].str)
               /\ rv.v[5].v[i].v[3] = Latin1(out.full.Group[i].str)

\* some exception of the call came from a failed allocation of the host
HostAllocFailed == \E i \in 1..Len(excLog) : excLog[i] = "MemoryError"

\* C11: a null or empty string handle converts to the empty text and does
\* not make the operation fail: a null or empty name in GetCurrentPrimaryIon
\* and GetCurrentTransmission gives a result whose name is the empty text,
\* and a null Desc or Group element in GetNextFullcycle is not read through
\* and gives a result.
C11_NullStringIsEmptyText ==
    /\ (/\ fn \in RecordFns
        /\ Answered(IcReturnType_ok)
        /\ ~HostAllocFailed
        /\ (out.after.name = NullH \/ out.data.name = <<>>)) =>
          /\ rv # NULL /\ Exc = "none"
          /\ rv.v[1] = PyStr(<<>>)
    /\ (/\ fn = "GetNextFullcycle"
        /\ Blocked(IcReturnType_ok)
        /\ ~HostAllocFailed
        /\ ~ShapeMismatch
        /\ \E i \in 1..Len(out.full.Data) :
             ~out.full.Desc[i].h \/ ~out.full.Group[i].h) =>
          /\ "null_deref" \notin ub /\ path # "crash"
          /\ rv # NULL /\ Exc = "none"

\* the number of bytes of a buffer in front of its first NUL, its length
\* when it holds none
UpToNul(buf) ==
    IF HasNul(buf)
    THEN (CHOOSE i \in 1..Len(buf) : buf[i] = 0 /\ \A j \in 1..(i - 1) : buf[j] # 0) - 1
    ELSE Len(buf)

\* C12: GetCurrentDataFileName returns the bytes of its buffer in front of
\* the first NUL, all MAX_PATH_LEN bytes when there is none, one code point
\* per byte, and reads no byte beyond the buffer.
C12_TruncateAtNulOrCapacity ==
    (fn = "GetCurrentDataFileName" /\ path = "success") =>
        /\ rv = PyStr([i \in 1..UpToNul(out.s_file) |-> out.s_file[i]])
        /\ "oob_read" \notin ub

\* the payload a numeric handle delivers: nothing behind a null handle
Payload(h, payload) == IF h = NullH THEN <<>> ELSE payload

\* C13: payloads are copied before the handles are released: no handle is
\* read behind its release, and the arrays returned by GetNextFullcycle,
\* GetCurrentPrimaryIon and GetCurrentTransmission hold exactly the elements
\* the handles held when the foreign call returned.
C13_CopiedBeforeRelease ==
    /\ ~\E h \in held : ReadAfterRelease(h, hlog)
    /\ (fn = "GetNextFullcycle" /\ path = "success") =>
          /\ rv.v[3].v = Payload(out.after["Spectrum"], out.full.Spectrum)
          /\ rv.v[4].v = Payload(out.after["CalPara"], out.full.CalPara)
    /\ (fn \in RecordFns /\ path = "success") =>
          /\ rv.v[2].v = Payload(out.after.a1, out.data.a1)
          /\ rv.v[3].v = Payload(out.after.a2, out.data.a2)

C13_Witness ==
    /\ fn = "GetNextFullcycle"
    /\ path = "success"
    /\ rv.v[3].v = <<1, 2>>
    /\ \E i \in 1..Len(hlog) : hlog[i] = [e |-> "read", h |-> out.after["Spectrum"]]
    /\ \E i \in 1..Len(hlog) : hlog[i] = [e |-> "release", h |-> out.after["Spectrum"]]

\* C15: within one call no foreign operation is called twice, a status
\* other than ok is the answer of the last foreign call of that call, and
\* the call then returns no value (one failure for the caller).
C15_NoRetry ==
    /\ \A i, j \in 1..Len(fcalls) : i # j => fcalls[i].op # fcalls[j].op
    /\ \A i \in 1..Len(fcalls) :
          fcalls[i].status # IcReturnType_ok => i = Len(fcalls) /\ rv = NULL

\* the count query of GetTraceMasses failed: the masses were not read
C15_Witness ==
    /\ fn = "GetTraceMasses"
    /\ Len(fcalls) = 1
    /\ fcalls[1].status = IcReturnType_error
    /\ rv = NULL
    /\ Exc = "IOError"

\* the functions that ask the foreign side for a size before they read
CountQueries ==
    [GetTraceMasses |-> "IcAPI_GetNumberOfPeaks",
     GetTraceData |-> "IcAPI_GetNumberOfPeaks",
     GetNextSpectrum |-> "IcAPI_GetNumberOfTimebins"]

\* C16 (as stated): every call issues at most one foreign call.
C16_SingleForeignCall == Len(fcalls) <= 1

\* C16 (amended): a call issues at most two foreign calls; two only in
\* GetTraceMasses, GetTraceData and GetNextSpectrum (the latter when the
\* caller gave no number of timebins), the first of them being the size
\* query, answered ok.
C16_AtMostCountThenData ==
    /\ Len(fcalls) <= 2
    /\ Len(fcalls) = 2 =>
          /\ fn \in DOMAIN CountQueries
          /\ fcalls[1].op = CountQueries[fn]
          /\ fcalls[1].status = IcReturnType_ok
          /\ fcalls[2].op # CountQueries[fn]
          /\ fn = "GetNextSpectrum" => args.n_timebins < 0

\* GetTraceData asked for the number of peaks and then read the traces
C16_Witness ==
    /\ fn = "GetTraceData"
    /\ Len(fcalls) = 2
    /\ path = "success"

\* the timeout argument of the last call
TimeoutArg == IF fn = "GetNextTimecycle" THEN args.timeout ELSE args.timeout_ms

\* C17 (as stated): a call without the timeout is accepted and makes its
\* blocking foreign call with 1000 ms; a given timeout is passed as it is.
C17_DefaultTimeout ==
    fn \in TimeoutFns =>
        /\ ~args.timeoutGiven =>
              /\ path # "parse_fail"
              /\ \A i \in 1..Len(fcalls) :
                    fcalls[i].op = BlockingCall[fn] => fcalls[i].timeout = DefaultTimeout
        /\ args.timeoutGiven =>
              \A i \in 1..Len(fcalls) :
                  fcalls[i].op = BlockingCall[fn] => fcalls[i].timeout = TimeoutArg

\* C17 (amended): the timeout is required. A call without it fails with
\* TypeError before any foreign call; a call with it passes exactly that
\* value to the blocking foreign call.
C17_TimeoutRequired ==
    fn \in TimeoutFns =>
        /\ ~args.timeoutGiven =>
              path = "parse_fail" /\ Exc = "TypeError" /\ fcalls = <<>> /\ rv = NULL
        /\ \A i \in 1..Len(fcalls) :
              fcalls[i].op = BlockingCall[fn] =>
                  args.timeoutGiven /\ fcalls[i].timeout = TimeoutArg

\* a call without the timeout was refused before any foreign call
C17_Witness ==
    /\ fn = "GetNextTimecycle"
    /\ ~args.timeoutGiven
    /\ path = "parse_fail"
    /\ fcalls = <<>>

\* C14: a result of a 'next' function the caller gets carries an overall
\* cycle that is not smaller than the one of the result taken before it.
C14_OverallNonDecreasing ==
    (fn \in NextFns /\ path = "success") => OverallOf(fn, rv) >= lastOverall

\* a spectrum of overall cycle 1 after a result of overall cycle 0, its
\* cycle within the measurement being 0 again
C14_Witness ==
    /\ fn = "GetNextSpectrum"
    /\ path = "success"
    /\ lastOverall = 0
    /\ OverallOf(fn, rv) = 1
    /\ out.timing.Cycle = 0

\* C18: a SetTraceMasses call with accepted arguments that the foreign side
\* answers ok ends the same way whatever calls were made before it.
C18_SameEndAfterAnyCalls ==
    probe.first # "none" => probe.last = probe.first

\* the handles the call of thread t holds
Holding(t) == IF pc[t] = "idle" THEN {} ELSE frame[Slot(t)]

C20_WaitWithoutLock ==
    \A t \in Threads : pc[t] = "waiting" => gil # t

\* the number of peaks the count query of the call was answered with
AskedPeaks == fcalls[2].len

\* C21: zero-length data is a result, not a failure.  GetTraceMasses and
\* GetTraceData with a peak table of 0 entries, their foreign calls answered
\* ok, give an empty float32 array (GetTraceData next to the timing tuple);
\* a full cycle whose spectrum or calibration handle is null, or whose
\* add-data array has length 0, is converted unless numpy cannot allocate,
\* and the null handle becomes the empty array.
C21_ZeroLengthIsValid ==
    /\ (fn = "GetTraceMasses" /\ Len(fcalls) = 2 /\ AskedPeaks = 0
           /\ fcalls[2].status = IcReturnType_ok) =>
          rv = NpArray("float32", <<>>) /\ Exc = "none"
    /\ (fn = "GetTraceData" /\ Len(fcalls) = 2 /\ AskedPeaks = 0
           /\ fcalls[2].status = IcReturnType_ok) =>
          /\ rv.kind = "tuple" /\ Exc = "none"
          /\ rv.v[2] = NpArray("float32", <<>>)
    /\ (fn = "GetNextFullcycle" /\ Blocked(IcReturnType_ok) /\ ~HostAllocFailed) =>
          /\ path \in {"success", "crash"}
          /\ path = "success" =>
                /\ out.after["Spectrum"] = NullH => rv.v[3] = NpArray("float32", <<>>)
                /\ out.after["CalPara"] = NullH => rv.v[4] = NpArray("float64", <<>>)
                /\ (out.after["Data"] = NullH \/ out.full.Data = <<>>) =>
                      rv.v[5] = PyList(<<>>)

\* GetTraceData read an empty peak table and returned the empty array
C21_Witness ==
    /\ fn = "GetTraceData"
    /\ path = "success"
    /\ AskedPeaks = 0
    /\ rv.v[2] = NpArray("float32", <<>>)

\* C22: on success GetNextSpectrum returns (timing, #auto, calpars,
\* spectrum) in that order: the timing 4-tuple (rel-cycle, abs-cycle,
\* rel-time, abs-time), the automation numbers, the calibration parameters
\* and the float32 array of the values the foreign call wrote.
C22_SpectrumTupleOrder ==
    (fn = "GetNextSpectrum" /\ path = "success") =>
        /\ rv.kind = "tuple" /\ Len(rv.v) = 4
        /\ rv.v[1] = PyTuple(<<PyInt(out.timing.Cycle), PyInt(out.timing.CycleOverall),
                               PyFloat(out.timing.relTime), PyFloat(out.timing.absTime)>>)
        /\ rv.v[2] = PyTuple([i \in 1..n_autos |-> PyInt(out.autos[i])])
        /\ rv.v[3] = PyTuple(<<PyFloat(out.calpars[1]), PyFloat(out.calpars[2])>>)
        /\ rv.v[4] = NpArray("float32", out.spectrum)

C24_PeaksIsMassesSize ==
    /\ (fn = "GetNumberOfPeaks" /\ fcalls # <<>>) =>
          IF fcalls[1].status = IcReturnType_ok
          THEN rv = PyInt(out.value) /\ Exc = "none"
          ELSE rv = NULL /\ Exc = "IOError"
    /\ (fn = "GetTraceMasses" /\ fcalls # <<>>) =>
          /\ fcalls[1].op = "IcAPI_GetNumberOfPeaks"
          /\ IF fcalls[1].status = IcReturnType_ok
             THEN /\ Len(fcalls) = 2
                  /\ fcalls[2].status = IcReturnType_ok =>
                        /\ rv.kind = "ndarray" /\ Exc = "none"
                        /\ Len(rv.v) = AskedPeaks
             ELSE rv = NULL /\ Exc = "IOError" /\ Len(fcalls) = 1

\* GetTraceMasses returned the masses of a table of two peaks
C24_Witness ==
    /\ fn = "GetTraceMasses"
    /\ path = "success"
    /\ AskedPeaks = 2
    /\ Len(out.table) = 2
    /\ Len(rv.v) = 2

\* C25: validation comes before every foreign call.  A trace_type outside
\* 0..2 in SetTraceData and GetTraceData, and an array that is not
\* 1-dimensional or not float32 in SetTraceData and SetTraceMasses, end in
\* ValueError with no foreign call made; an accepted array is passed to the
\* foreign set call with its number of elements as the length.
C25_ValidationBeforeForeignCall ==
    /\ (fn \in {"SetTraceData", "GetTraceData"} /\ path # "parse_fail"
           /\ args.trace_type \notin 0..2) =>
          rv = NULL /\ Exc = "ValueError" /\ fcalls = <<>>
    /\ (fn \in {"SetTraceData", "SetTraceMasses"} /\ path # "parse_fail"
           /\ (Len(args.iarr.shape) # 1 \/ args.iarr.dtype # "float32")) =>
          rv = NULL /\ Exc = "ValueError" /\ fcalls = <<>>
    /\ (fn \in {"SetTraceData", "SetTraceMasses"} /\ fcalls # <<>>) =>
          fcalls[1].len = Product(args.iarr.shape)

\* C26: the table server_actions covers the enumeration of the header:
\* every constant appears exactly once, with its name and its value, and no
\* two entries share a name or a value.
C26_ServerActionsComplete ==
    /\ \A i \in 1..Len(Common_ServerActions) :
          Cardinality({j \in 1..Len(server_actions) :
                          server_actions[j] = <<Common_ServerActions[i], i - 1>>}) = 1
    /\ \A j, k \in 1..Len(server_actions) :
          j # k => /\ server_actions[j][1] # server_actions[k][1]
                   /\ server_actions[j][2] # server_actions[k][2]

\* C27: a function that returns does so in one of two ways, whatever the
\* foreign status and the outcome of the conversions: with a value and no
\* exception pending, or with no value and an exception pending.
C27_ValueXorException ==
    (~Idle /\ path # "crash") =>
        \/ rv # NULL /\ Exc = "none"
        \/ rv = NULL /\ Exc # "none"

\* the table (the traces) the server holds when the data read of the call
\* is made; another client may have changed it since the count query
ServerAtRead == IF fn = "GetTraceMasses" THEN out.table ELSE out.trace

\* C28: the array GetTraceMasses and GetTraceData return is as long as the
\* server's table is when the data read is made, also when the table was
\* changed after the count query; and the read is given no length beyond
\* the length of the buffer.
C28_LengthAtRead ==
    (fn \in {"GetTraceMasses", "GetTraceData"} /\ path = "success") =>
        /\ fcalls[2].len <= Len(out.data)
        /\ IF fn = "GetTraceMasses"
           THEN Len(rv.v) = Len(ServerAtRead)
           ELSE Len(rv.v[2].v) = Len(ServerAtRead)

\* C29: GetNextSpectrum without a number of timebins (or with a negative
\* one) asks IcAPI_GetNumberOfTimebins first; if that is not answered ok the
\* function ends with IOError and IcAPI_GetNextSpec is not called; otherwise,
\* numpy having allocated the array, IcAPI_GetNextSpec is called with the
\* answered length and the spectrum returned has that many elements.  With a
\* number of timebins given, IcAPI_GetNumberOfTimebins is not called and the
\* given number is the length.
C29_TimebinsBeforeSpec ==
    (fn = "GetNextSpectrum" /\ path # "parse_fail") =>
        IF args.n_timebins < 0
        THEN /\ fcalls # <<>>
             /\ fcalls[1].op = "IcAPI_GetNumberOfTimebins"
             /\ IF fcalls[1].status # IcReturnType_ok
                THEN Len(fcalls) = 1 /\ rv = NULL /\ Exc = "IOError"
                ELSE ~HostAllocFailed =>
                       /\ Len(fcalls) = 2
                       /\ fcalls[2].op = "IcAPI_GetNextSpec"
                       /\ fcalls[2].len2 = fcalls[1].answer
                       /\ path = "success" => Len(rv.v[3].v) = fcalls[1].answer
        ELSE /\ \A i \in 1..Len(fcalls) : fcalls[i].op # "IcAPI_GetNumberOfTimebins"
             /\ ~HostAllocFailed =>
                   /\ Len(fcalls) = 1
                   /\ fcalls[1].op = "IcAPI_GetNextSpec"
                   /\ fcalls[1].len2 = args.n_timebins
                   /\ path = "success" => Len(rv.v[3].v) = args.n_timebins

\* the number of timebins was asked for, answered 2, and a spectrum of two
\* values was returned
C29_Witness ==
    /\ fn = "GetNextSpectrum"
    /\ path = "success"
    /\ ~args.binsGiven
    /\ Len(fcalls) = 2
    /\ fcalls[1].answer = 2
    /\ Len(rv.v[3].v) = 2

\* the timing tuple passed to SetTraceData is a converted TimingInfo
ConvertedTiming ==
    /\ fn = "SetTraceData"
    /\ path \notin {"parse_fail", "value_fail"}
    /\ \E t \in TimingInfos : args.tc_tup = convert_IcTimingInfo(t)

\* C30: convert_tc_tuple undoes convert_IcTimingInfo.  SetTraceData given
\* the tuple of a TimingInfo t accepts it and passes a record equal to t in
\* all four fields to the foreign call, and the timing tuple GetTraceData
\* returns converts back to the TimingInfo the foreign call delivered.
C30_TimingRoundTrip ==
    /\ ConvertedTiming =>
          /\ path # "tuple_fail"
          /\ fcalls # <<>>
          /\ \A t \in TimingInfos :
                args.tc_tup = convert_IcTimingInfo(t) => fcalls[1].timing = t
    /\ (fn = "GetTraceData" /\ path = "success") =>
          convert_tc_tuple(rv.v[1]) = [ok |-> TRUE, out |-> out.timing]

\* SetTraceData passed on the timing of a converted tuple whose cycle
\* numbers differ, as its times do
C30_Witness ==
    /\ ConvertedTiming
    /\ path = "success"
    /\ fcalls[1].timing.Cycle = 0 /\ fcalls[1].timing.CycleOverall = 1
    /\ fcalls[1].timing.relTime # fcalls[1].timing.absTime

====
